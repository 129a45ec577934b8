# CodeER: TLA+ verification project

CodeER ("the emergency room for code") takes in incidents about a repository,
triages them, reproduces the failure in a Docker sandbox, lets an AI
investigate, prepares a patch under human control and publishes it as a pull
request. The program is an API (NestJS), a web front end and worker processes
that share a PostgreSQL database and BullMQ queues in Redis. Almost everything
that is hard about it lies in the control plane: rows with statuses and leases,
jobs that are delivered more than once, processes that crash or pause between
two transactions, and side effects on Docker and GitHub that no transaction
covers. That control plane is what this project models.

## 1. Inventory

| Component | State | Operations | Interacts with |
|---|---|---|---|
| Sandbox execution (`sandbox-store.ts`, `sandbox-execution-worker.ts`, `orchestrator.ts`, `provider.ts`) | `SandboxExecution`, `FailureReproduction`, `SandboxCommand`, `SandboxLogChunk`, `SandboxCleanupRecord` rows; containers and a volume labelled with the execution id | create, cancel, claim, heartbeat, status, command, log, artifacts, cleanup, complete, reconcile, sweep | outbox (its job), BullMQ, Docker, incident event chain |
| Transactional outbox (`incident-store.ts`, `index.ts`) | `OutboxMessage` rows; the batch of each dispatcher | insert, claim, add to queue, mark published, mark failed | every store inserts, BullMQ |
| Incident engine (`incident-store.ts`, `packages/incidents`) | `Incident` with status and version, evidence, assessments | create (idempotent), add evidence, transition (optimistic), request and process triage | outbox, event chain |
| Event and audit chains (eleven append functions in six stores) | hash-chained `IncidentEvent`, `AuditLog`, `InvestigationEvent`, `RecoveryEvent`, `PublicationEvent` | append: read the latest row, insert its successor | every store |
| Investigation (`investigation-store.ts`, `investigation-worker.ts`) | run with lease, checkpoints, agent runs, budget, diagnosis, plans | create, acquire lease, heartbeat, checkpoint, save, cancel, resume, decide plan, reconcile | AI provider, outbox, incident |
| Controlled recovery (`recovery-store.ts`, `controlled-recovery-worker.ts`, `lifecycle.ts`) | recovery with lease and attempts, worktree, patch versions, reviews, verification, decision | create, lease, checkpoint, record, decide publication, request revision, clean up, reconcile | sandbox, git worktree, outbox |
| Publication (`publication-store.ts`, `execution.ts`, `lifecycle.ts`, worker) | publication with lease and attempts, branch, commit, pull request | create, claim, advance, materialise, open pull request, fail, reconcile | GitHub, outbox |
| Webhooks and merge closure (`github-webhook-store.ts`, `merge-closure-store.ts`, `webhook-processing.ts`, worker) | deliveries, checks, reviews, readiness decisions, post-merge verification | reserve, resolve tenant, enqueue, apply, evaluate readiness, verify | GitHub, publication, recovery, incident |
| Organization settings | versioned settings | read, save | - |
| Domain policies (severity, health, sandbox policy, log accumulator, signatures) | none | pure functions | the stores and the orchestrator |
| API services, web, configuration, contracts, logging, GitHub client, AI provider, repository intake | none of their own, or external | validation, mapping, I/O | the stores |

What makes the components correct:

* Sandbox: an execution is decided once; a conclusive result is the work of one
  run; nothing completes without a cleanup proof; a claimed execution ends, and
  its Docker resources go away, whatever crashes.
* Outbox: no committed message is lost; the status of a row is backed by the
  queue; messages are given up only after the configured attempts.
* Incident engine: every status change follows the domain's table; an
  idempotency key names one incident; a job delivered twice has one effect.
* Chains: one chain per incident and per organization, without forks or gaps.
* Investigation, recovery, publication: one worker at a time writes; a resumed
  or reconciled run does not repeat a side effect; limits on attempts and
  budgets hold; nothing is published without the approvals it needs.
* Webhooks: the stored state of checks, reviews and pull request converges to
  GitHub's whatever the order of deliveries, and a merge is always verified.

The hazards, each at the line where it bites, are listed in `PROJECT.json`.

## 2. Plan

| # | Module | Models | Status |
|---|---|---|---|
| 1 | `SandboxExecution`, `ExecutionContract`, `SandboxExecution_proofs`, `MCSandboxExecution` | one sandbox execution, its abstract contract, the proofs | built |
| 2 | `Outbox`, `Outbox_proofs` | the outbox and its dispatchers | built |
| 3 | `IncidentEngine`, `IncidentEngine_proofs` | lifecycle, versions, repeated triage jobs under the at-least-once delivery that `Outbox` establishes | built |
| 4 | `EventChain`, `EventChain_proofs` | the chain appends as interleaved transactions: incident, investigation, recovery and publication events, audit log | built |
| 5 | `Recovery`, `MCRecovery`, `Recovery_proofs` | one recovery: lifecycle, lease, worktree, patches and evidence, resume, revision, decision, clean-up | built |
| 6 | `PublicationLifecycle`, `Publication`, `MCPublication`, `Publication_proofs` | the publications of a recovery: stages, GitHub side effects, crash, cancel and retry | built |
| 7 | `WebhookClosure`, `WebhookClosure_proofs` | webhook deliveries, merge readiness, post-merge verification | built |
| 8 | `Investigation`, `MCInvestigation`, `Investigation_proofs` | lease, checkpoints, failure, resume, reconciliation, plan approval | built |
| 9 | small modules | log accumulator, severity and health against reference definitions | planned |

How the modules compose. `PublicationLifecycle` (the statuses of a publication
and their table) is shared by `Publication`, which takes a publication up to
CI_MONITORING, and `WebhookClosure`, which takes it on from there; the recovery
of `Publication` changes as `Recovery` lets it once it is READY_TO_PUBLISH
(another approval, a withdrawn one, a revision). `Recovery`, `Investigation` and
`Publication` assume of the queue what `Outbox` shows and no more: a job may be
delivered any number of times. All their transactions append to the chains of
`EventChain`, where the transaction itself is taken apart; in the other modules
a transaction is one step.

Every invariant and every action property that a passing run checks is also a
theorem (section 11). What is left to prove is what lies beyond them: facts about
single operators, and stronger statements about what a lease protects when calls
of one process share it.

## 3. `SandboxExecution`

### State and actions

A row-level model of one execution. Every store method is one transaction and
one step; between two awaits of a handler anything else may happen.

* `status`, `result`, `completed` (`completedAt` is set), `leaseOwner`,
  `leaseLive` (`leaseExpiresAt > NOW()`), `rstatus` (the reproduction's status),
  `cancel` are columns. `cmdBy` and `cmdStatus` are the `SandboxCommand` rows by
  `sequence`, `logs` the `SandboxLogChunk` rows by `sequence` (one chunk stands
  for the output of a command), `proofs` the set of `verifiedAbsent` flags of
  the cleanup records, `finals` counts the terminal incident events.
* `resources` is what Docker holds under the label of the execution: the
  workspace volume and one container per run.
* `run[r]` holds the program counter and the local variables of one delivery of
  the job: `at` is its process, `abort` the reason of its `AbortSignal`, `seq`
  the orchestrator's `sequence`, `emitted` the log accumulator's, `verdict` the
  pair of `status` and `result` the orchestrator is settling on.
* `pass[p]` is one reconciliation pass.
* `author` and `faults` are observers: who completed the execution, how many
  faults have happened.

The program counter follows the code: `claim` (handler), `preparing`,
`prepare`, `beat`, then per command `check`, `start`, `create`, `exec`,
`finish`, `beat`, with `phase` where the orchestrator changes status, `collect`,
then the catch block (`emit`), the finally block (`cleaning`, `cleanup`,
`proof`, `final`), the handler's `record` and `complete`, and its catch block
(`emergency`, `erecord`, `ecomplete`). The lease token is `workerId` for all
runs of a process and `${workerId}:reconciler` for its passes, as in the code.

A store call can fail in three ways (`Refused`): the lease check throws, the
call fails before its transaction, or the commit is not acknowledged. The last
two, failing Docker calls, crashes, and pauses longer than a lease or job lock
are faults, and `MaxFaults` bounds them.

### The contract

`ExecutionContract` is the abstract specification: an execution is undecided,
gathers cleanup proofs, and is decided once, to an outcome that reports a failed
clean-up unless a positive proof is on record; then nothing changes.
`SandboxExecution` implements it with the refinement mapping `Decided`, the
record of both statuses, result, author and number of terminal events.

### Runs

| Run | Expect | Shows |
|---|---|---|
| `SandboxCompeting` | pass | two deliveries on two processes, a reconciler and three faults: the contract, and that a conclusive result is earned by one run |
| `SandboxOutcomes` | pass | an installation and two reproduction commands, all exits and interrupts, one fault: the same along every path of the orchestrator |
| `SandboxLiveness` | pass | under fairness a claimed execution becomes terminal and its resources are reclaimed |

What the code does not promise, each visible in the model as a step of the
code: a command that the execution timeout kills counts as an ordinary failed
reproduction command, so the execution may end COMPLETED with a conclusive
result (`orchestrator.ts:171`); a cancellation that the database check sees
before the poll timer does is reported as INFRASTRUCTURE_FAILED
(`orchestrator.ts:128`); two deliveries in one process share the lease token,
so the older one goes on writing commands and logs after the takeover
(`sandbox-execution-worker.ts:58`); a run that lost its lease may create
resources after the completion (they are swept in the end, which is checked); an
execution whose claim failed stays REQUESTED; a crash after the last status
update leaves a terminal row without result and event, which no reconciler
selects (`sandbox-store.ts:1060`).

Bounds. `Run` has two elements where redelivery matters because
`maxStalledCount` is 1; more deliveries cannot happen. Two processes are needed
for a takeover across processes, and sharing a process is among the
assignments. Three faults are needed for the worst interleaving we know of:
redelivery during a pause, a lapsed lease, and a lost acknowledgement. One
installation and two reproduction commands reach every branch of the command
loop: the first, an inner and the last command, and each phase change.
Deadlock is not checked because an execution stops when it is terminal. The
processes, runs and passes are interchangeable, so the safety runs use symmetry;
the liveness runs do not.

Fairness (`Fairness`): awaits return, since every Docker call has a timeout and
store calls end; BullMQ redelivers the job of a dead process; leases lapse; and
the interval timers of a surviving process keep starting passes. Fairness never
obliges a fault. `Crash` leaves one process alive, which stands for the
restarted one.

## 4. `Outbox`

`row` holds per message the status, `attempts` and whether `availableAt` and
the lock timeout have passed; `batch` and `current` are the local variables of
`publishOutbox` in each process; `queued` is what BullMQ has ever accepted. A
poison message is one whose payload or topic the dispatcher refuses. The marks
are not fenced, as in the code: a dispatcher whose lock has lapsed writes over
its successor. An error inside `markOutboxFailed` leaves `publishOutbox`, and
the rejected promise of the timer ends the process (`Drop`).

| Run | Expect | Shows |
|---|---|---|
| `OutboxDispatch` | pass | PUBLISHED rows are queued, dead letters were tried `MaxAttempts` times, a message's claims differ in their attempt; committed messages settle for good, and are queued unless faults used up the attempts |

Three messages with a batch size of two make batches that overlap and a message
that waits; two attempts reach both branches of `FailedStatus`; two faults
allow a lapsed lock together with a crash, a lost answer or an error. Fairness:
the poll timer fires, calls return, time passes. `claimOutboxBatch` itself never
compares `attempts` with the limit, so a message whose dispatchers keep dying is
claimed more often than `OUTBOX_MAX_ATTEMPTS`; what the code does promise is
that a dead letter was tried at least that often.

## 5. `IncidentEngine`

One incident. `incident` is its row; a severity is represented by what
`assessSeverity` took it from, the override or the signals. `response` is what
the idempotency record of the creation returns to a retry, `assessments` the
`SeverityAssessment` rows, `keys` the deduplication keys in the outbox (all have
the form `incident.triage:<id>:<version>`), `jobs` the triage jobs between their
commit and the end of their last attempt, `seen[c]` the row a client knows.
`requests`, `served` and `faults` are observers.

Every store method is one SERIALIZABLE transaction that locks the row, so each
is one action: `CreateIncident`, `ReplayCreation`, `GetIncident`, `AddEvidence`,
`TransitionIncident`, `RequestTriage` and, as the body of a job,
`ProcessTriage`. An answer may be lost after the commit; a job may fail and be
tried again, or stall and be handed out again, before or after its transaction
committed.

| Run | Expect | Shows |
|---|---|---|
| `IncidentEngine` | pass | the version names the contents of the row; every triage request has its own message; stage, acknowledgement and resolution follow the status; overrides survive; closed incidents stay as they are; requests are served |

`processTriage` refuses closed incidents only and asks no table, so a job that
runs late takes an incident that has moved on back to INVESTIGATING
(`incident-store.ts:1000`); no property of the run says otherwise.

Six versions are what the shortest way to VERIFIED takes, and the creation and
one more request give two jobs in any order. One client is enough for a stale
read, since jobs, evidence and lost answers change the row behind its back; the
theorems hold for any number of clients. Two faults allow a job to run twice and
an answer to be lost, and the exemption of `RequestIsServed` (`MaxStalls` is 1,
BullMQ's default) begins at the second. Fairness: a job that is committed is
handed out and its handler returns; clients owe nothing.

## 6. `Recovery`

One controlled recovery. `row` is the `RecoveryRun` row (status, lease owner and
whether the lease is live, cancellation, current patch), `patches` the patch
versions with the security review, the verification report and the package each
has, `approvals` the publication approvals, `tree` the worktree on disk and
`treeRow` what its row says, `slot[s]` one call of `processRecovery`, `view[a]`
what a person last read. `Program` is the body of `processRecovery` as a sequence
of steps: a step named after a status is the checkpoint of that status,
"control" is `checkControl`. Every step that writes asks for the lease
(`Leased`) exactly where the code does; what throws takes the step `Fail`, whose
status is chosen by `safeError` from the words of the error (`transitionError`,
`FailAs`).

Abstracted: the rows nothing reads back (agent runs, snapshots, critic
evaluations) appear only as the lease check they make; what the model, the
reviewer and the sandbox answer is any outcome; a lease is stale exactly when it
is not live; the list of stale recoveries and the lease of one of them are one
step; after a crash the worker has another name. A decision takes effect only if
the person's `expectedVersion` is the row's, which `view[a].fresh` stands for:
every step that increments the version (`BumpVersion`) makes all views stale.

| Run | Expect | Shows |
|---|---|---|
| `RecoverySafety` | pass | patches are numbered without gaps and decisions belong to the patch that was read (`RecoveryInv`); what waits at the gate was reviewed, verified and packaged (`GateIsEvidenced`); what is ready has its approvers (`ReadyIsApproved`); evidence is not rewritten (`EvidenceIsKept`) |
| `RecoveryLiveness` | pass | a recovery under way comes to rest (`ActiveSettles`); a cancellation during the work is not overtaken by the gate (`CancelTakesEffect`) |

Bounds: two runs make every takeover; two people, one of whom approved the plan
of an elevated risk, make the separation of duties matter; two diffs allow a
revision with a new patch and a repeated one, which the unique digest refuses;
one fault (a lapsed lease or a crash) and two requests (cancel, resume, revise,
decide). The liveness run has one diff and every kind of failure. Fairness: calls
end, the reconciler's timer runs, a lease nobody renews runs out; nothing is
assumed of the queue, of people or of crashes.

Known limits of the code, all of them steps of the model. A cancellation asked
for after the last control point (during the verification, the package, or at
the gate) has no effect. TIMED_OUT has no way out of it, and reconciliation
restarts failures that were meant for a person. The finally block removes the
worktree whoever owns it now, `markCleanup` asks for no lease and overwrites
the gate with CLEANUP_FAILED, and a crash after the gate's checkpoint leaves the
worktree behind. A scope violation ends as PATCH_REJECTED; POLICY_BLOCKED is never
set. With both runs in one process (`MCRecovery!OneProcess`) the lease cannot tell
them apart (`recovery-store.ts:647` lets the same owner in again) and TLC finds
`EvidenceIsKept` violated; the runs therefore give each delivery its own process.

## 7. `Publication`

The publications of the patches of one recovery. `run[p]` is the `PublicationRun`
of patch p with its commit and pull request, `github` the base branch, the head
branches and the pull requests, `slot[s]` one call of `processPublication` with
the values it read (`claimed` is the status at the claim, by which it skips
stages), `recovery` what the publication reads of the recovery. A commit's hash
is a function of the patch and of the date of the latest approval. Each call of
GitHub is a step of its own, separate from the row that records it, and may fail
before or after its effect; other people push, move the base and close pull
requests at any time. A request may name a package of another patch or a policy
that forbids the branch (`genuine`, `permitted`); the worker is what refuses.

| Run | Expect | Shows |
|---|---|---|
| `Publication` | pass | a branch carries only what was approved for it or what a person pushed (`BranchIsApproved`); a monitored publication has a draft pull request of its own (`PublicationInv`); a cancelled one stays cancelled (`CancellationIsFinal`); every publication comes to rest (`InFlightSettles`) |

Bounds: two patches on one branch or on two, two approvals of one patch
(another date, another commit), two attempts, so that a stage is entered again
with what the first attempt left behind, one lapse or crash, one intervention of
people (cancel, retry, withdrawal and revision, push, moved base, closed pull
request) and failing GitHub calls.
Fairness: the worker's calls end, its reconciler runs, leases run out.

Known limits: `cancel` and `retry` write a status without the transition table
and without a job, and nothing sets `cancellationRequestedAt`, so a run learns of
a cancellation only when it records a result; the head of a created pull request
is not compared with the commit (`execution.ts:940`); an approval between two
attempts changes the commit's date and blocks the publication; `failPublication`
with a status the table refuses is only logged; the publication parses the patch
with a parser of its own, which may refuse an approved diff.

## 8. `WebhookClosure`

`hub` is the pull request as GitHub has it, `delivery` the events sent, each with
its row, the request that handles it and its job, `publication` the rows the
events are stored in, `decisions` the merge-readiness decisions. Events carry
what was true when they were sent; requests and jobs run in any order, between
the two transactions of a job (store, evaluate) other jobs run, attempts fail
before or after their transaction, the ingress may crash between reservation and
job. A delivery that arrives again is answered from the reserved row.

| Run | Expect | Shows |
|---|---|---|
| `WebhookClosure` | pass | stored changes are evaluated (`ChangesAreEvaluated`), reviews converge to the last submission (`ReviewsConverge`), nobody is asked to merge what was never green (`ClosureInv`), deliveries settle (`DeliveriesSettle`) |
| `ReadinessDecision` | violation | after green, red and green again the latest decision is not about what is stored (`LatestDecisionIsCurrent`): an evaluation with a known digest is not stored again |

Bounds: three deliveries (three are needed for a state that returns to an
earlier one), one reviewer, one fault; a second reviewer or more check
conclusions multiply the states without a new interleaving, since reviewers are
independent of each other and only red and green differ in the evaluation.
Fairness: a started request or job goes on; nothing is assumed of GitHub or
people.

Known limits: nothing in the code moves CI_MONITORING on, so the operator's
update of the status is external (`operatorAwaitsReview`);
`applyPostMergeVerification` inserts ten placeholders with nine values
(`merge-closure-store.ts:276`), always throws, and its repetition finds the
publication merged: no publication is ever closed, which is modelled as it is;
a crash between reservation and job loses the event; after three failed attempts
a row stays RECEIVED; a check whose head has moved when its attempt is repeated is
ignored; pull-request events do not re-evaluate readiness.

## 9. `Investigation`

`run` is the `InvestigationRun` row, `plan` the treatment plan with its approvals,
`jobs` the deduplication keys of the outbox and the jobs not yet started,
`slot[s]` one call of `processInvestigation` between its steps: control,
checkpoint of the stage, the agent's work, saving. The rows that record an
agent's work are kept as the lease check they make (`Recorded`). What agents find
is any outcome; an error becomes a status by its words (`safeError`), and as the
critic's own summary is part of the message, a refusal by the critic may end in
any failed status.

| Run | Expect | Shows |
|---|---|---|
| `Investigation` | pass | plan and investigation agree about decisions, and approved means by enough people (`InvestigationInv`); a diagnosis is stored only into the run that came through every stage (`SavedAfterCritic`); an investigation under way comes to rest (`ActiveSettles`) |

Bounds: two slots, two approvers of whom both are required, two faults
(redelivery, lapse, crash, database error) and two requests; of the errors of an
agent's work the one with a status of its own that no resumption accepts and the
one with all statuses. Fairness: calls end, queued jobs start, the reconciler
runs, leases run out.

Known limits: a redelivered job leases an investigation that awaits approval, and
its failure, reported late, overwrites a decision taken meanwhile (`failInvestigation`,
`investigation-store.ts:1833`); a crash before the first checkpoint, or a
resumption whose key collides, leaves REQUESTED for ever, since the reconciler
selects the statuses under way only; REVISION_REQUESTED, INSUFFICIENT_EVIDENCE and
TOOL_FAILED can be resumed but the run then throws; a diagnosis is unique per
investigation, so a second one always fails to be saved; budgets are per run.
With both slots in one process (`MCInvestigation!OneProcess`) the lease does not
tell them apart and TLC finds `SavedAfterCritic` violated.

## 10. `EventChain`

`rows` are the committed rows of the five chained tables, `tx[t]` one transaction:
its attempt, its snapshot, its locks, the newest row it read and the rows it has
inserted. Every `Appender` is one of the append functions with the lock it takes
(none, or one of six names), whether it selects the newest row FOR UPDATE, and
whether an equal event is stored once; every `Operation` is a transaction of a
store with its isolation level. A statement sees the snapshot of its isolation
level (`Visible`), a unique key makes an insertion wait for an uncommitted row of
the same number (`Pending`) or fail (`Taken`), and a serializable transaction that
missed a row of another is refused (`Refused`). `rollback` is `withTransaction`'s
handling: 40001 and 40P01 are tried again, everything else is thrown.

| Run | Expect | Shows |
|---|---|---|
| `EventChain` | pass | all event chains verify and a repeated operation adds nothing (`ChainInv`), the audit chain does not fork (`AuditIsLinear`), every operation commits or throws (`OperationsEnd`) |

Three transactions of any of the eleven operations make every pair of lock
regimes meet with a third one in between; two attempts reach both branches of
`mayRetry`. Fairness: a transaction that waits for nobody goes on; `lock_timeout`
is not assumed, so the absence of deadlocks is not owed to it.

What it costs: an append that waited for another lock regime, or read an old
snapshot, ends in a unique violation, which is not retried. What is assumed: one
application clock without ties for the audit chain (`incident-store.ts:354`
orders by `createdAt` and `id`); the first rows of new investigations and
recoveries, the row locks operations take earlier and false positives of
serialization are left out, none of which can break a chain.

## 11. Proofs

All proofs are for every value of the constants.

`SandboxExecution_proofs`: `TypeCorrect`, `Earned` (`ConclusiveIsEarned`) and
`ImplementsContract` (`Spec => ContractSpec`). Assumptions: `SandboxAssumption`
(at least one reproduction command, `NoOne` is not a worker, run, pass or
token). `ConclusiveIsEarned` is not inductive: it needs to know what each run
has in its hands before it completes. `IInv` therefore adds, per run, that
counters stay within the plan (`Counting`), that a verdict accounts for its own
clean-up and that the proof is stored before the completion (`Proving`), that
the command rows passed so far are the run's own and acceptable (`Earning`);
and for the row, that a completed execution has no lease and an open one no
result, author or event (`Ledger`). `Earning` survives another run with the same
lease token because `commandStarted` inserts under a unique sequence. The
refinement is proved through `RowStep`: every step decides the row, creates it,
or leaves a decided one alone.

`Outbox_proofs`: `OutboxTypes`, `PublishedWasQueued`, `DeadLetterWasExhausted`
and `ClaimsDistinct`, from `OutboxAssumption`. The inductive invariant adds that
a dispatcher about to mark a message has queued it (`MarkedIsQueued`), that no
held attempt exceeds the row's counter (`ClaimsAreCounted`), which is what keeps
an unfenced late mark harmless, and that message and attempt identify a claim.

`IncidentEngine_proofs`: `IncidentTypes`, `VersionsNameContents`,
`RequestsQueued`, `MilestonesHold`, `OverrideKept` and the action property
`ClosedStaysClosed`, from `IncidentAssumption`. The invariant adds that nobody
knows a version that is still to come and that a row known at the present
version is the incident, the stored response included (`Versions`); that keys
name past versions, which makes the key of the next request new; and that all
assessments agree on whether the severity is overridden (`Overrides`), so that
it does not matter which of them processTriage takes for the latest.

`Investigation_proofs`: `DecisionsHold` (`InvestigationInv`) and
`DiagnosisFollowsCritic` (`SavedAfterCritic`), from `InvestigationAssumption`
(the identifier of a worker is neither `NoOne` nor `Gone`). The first needs the
place of each call in its program (`Placed`) and that the approvals are a finite
set. The second rests on `InStage`: as long as there is no plan, the call that
holds the lease and has passed the checkpoint of its stage finds the
investigation in that stage.

`Recovery_proofs`: `NumberedAndFiledAsRead` (`RecoveryInv`), `GateOffersEvidence`
(`GateIsEvidenced`), `ReadinessIsApproved` (`ReadyIsApproved`) and
`EvidenceDoesNotChange` (`EvidenceIsKept`), from `RecoveryAssumption`. `IInv`
adds that whoever has read the row in its present version has seen its patch
(`Seen`) and that no call is ahead of the patches (`Placed`). The other three
need `Lockstep`: the call that has the lease finds the row in the stage of its
last checkpoint, its own patch the last one, and of the results exactly those it
stored; `ApprovalsSeparated` says that whoever approved was allowed to.

`DiagnosisFollowsCritic` and the last three theorems on `Recovery` have the
hypothesis `OneCallPerProcess`: no two calls run in the same process. It is what
the runs assume too, and it cannot be dropped: a process that already owns a
lease is let in again, and with `OneProcess` of the MC modules TLC finds
`SavedAfterCritic` and `EvidenceIsKept` violated. `DecisionsHold`,
`NumberedAndFiledAsRead` and everything about `Publication` hold without it.

`Publication_proofs`: `MonitoringHasDraft` (`PublicationInv`),
`OnlyApprovedIsPublished` (`BranchIsApproved`) and `CancelledIsFinal`
(`CancellationIsFinal`), from `PublicationAssumption` (there is a branch). The
invariant says what each step of a call knows (`Calls`), what the rows agree on
(`Rows`, `Drafts`), and above all who owns a branch (`Passing`): a publication
that has gone past its branch finds there its own commit or what a person pushed,
and no two such publications have the same branch. This is what makes the
repetition of a push or of the creation of a pull request harmless.

`EventChain_proofs`: `HistoriesVerify` (`ChainInv`) and `AuditLogIsLinear`
(`AuditIsLinear`), for any number of transactions and retries. `ChainInv` is not
inductive: it says nothing of rows that are not committed. `IInv` adds that the
uncommitted events of a transaction go on where the committed ones end
(`Follows`) and that no two transactions have uncommitted events in one table
(`Exclusive`), which the unique key brings about: an insertion whose number is
free has read the newest row, and it waits for anybody else's row of that number.
An advisory lock is nowhere needed. For the audit log, which has no such key,
`Linked` says that every entry but the first was written by a serializable
transaction; one that is not refused at its commit has therefore seen all of them.

`WebhookClosure_proofs`: `MergedWasGreen` (`ClosureInv`), `NoChangeUnnoticed`
(`ChangesAreEvaluated`) and `ReviewsSettle` (`ReviewsConverge`), from
`WebhookAssumption`. `Watched` says that what is stored has been evaluated or some
job will do so or has given up; without failed attempts the job is at its
evaluation, after one only a review is sure to find its publication again.
`Carries` and `Converging` say that a delivery on its way has the state that the
review has, unless that was dismissed, and that every review which was not
dismissed is stored, on its way or dropped. That the reviews of a person have a
last one is part of the invariant (`Submitted`), since it cannot be had by
induction over the sequence.

Only model-checked: the eleven liveness properties (`ActiveBecomesTerminal`,
`ResourcesReclaimed`, `EventuallySettled`, `EventuallyQueued`, `RequestIsServed`,
`CancelTakesEffect`, `InFlightSettles`, `DeliveriesSettle`, `OperationsEnd` and
the two `ActiveSettles`), which rest on fairness and are out of the prover's
reach.

The bounds named in sections 3 to 10 are constants of the modules (`MaxFaults`,
`MaxRequests`, `MaxVersion`, `MaxDeliveries`, ...) that appear in guards.

## 12. Not modelled

The comparison of failure signatures (every conclusion is allowed where the
code may draw one), the contents of artifacts, logs, diffs and trees, Docker
command lines, path, command and diff policies (a choice of their outcome), list
queries and cursors, row-level security, signatures and authentication, the
API's validation, the web application, AI prompts and providers, configuration,
the intake of a repository, organization settings (one insertion under a unique
version), `demo-reset` and the other scripts, which change rows outside the
program. Behaviour of the environment that no property of the code could cover:
BullMQ forgets finished jobs after a day or 5000 jobs; it refuses job ids that
have other than three parts joined by ':', as those of resumed recoveries do
(`recovery-store.ts:600`); a signal aborted between two checks is not delivered to
a listener that is added late (`provider.ts:875`).
