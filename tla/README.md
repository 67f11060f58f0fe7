# Verification of Wolf's durable jobs

Wolf runs third-party security scanners over repositories. A scan is a row of a
durable queue; worker processes claim rows, prepare the source, run dozens of
tools in containers and publish findings, reports and gates. Beside it stand a
job queue for automatic fixes, and a "release factory" that discovers, builds,
qualifies, rolls out and withdraws the scanner images themselves. This directory
holds TLA+ specifications of the parts that are concurrent and have to survive
crashes, their TLC configurations, and TLAPS proofs. All of them are rows of a
database that several processes change under a claim and a lease, and the question
is the same everywhere: what happens when the one who holds a row is slow, dead or
told to stop.

Paths below are relative to the repository. "The row" is the scan's row in table
`scans`, "a slot" one iteration place of a worker's `claimLoop`.

## 1. Inventory

### Modelled

| Part (code) | State | Operations |
| --- | --- | --- |
| Durable scan queue (`internal/db/postgres_scanqueue.go`, `scan_completion.go`, `UpdateScan` in `postgres.go`) | the row: status, lease token and expiry, attempt, cancellation request | claim, start, heartbeat, reclaim, finalise, complete, request cancellation, write the whole row |
| Scan worker (`internal/scanjob/worker.go`) | per slot: claimed scan, ticker, time of the last renewal, context | claim loop, `process`, `scanHeartbeat`, shutdown |
| Scan executor (`executeScan` in `internal/api/routes/scans.go`) | lease token as read from the row, copies of the row, resume decision, persistence errors | start, prepare, recover, run the tools, record, publish or fail |
| Run records and findings (`UpsertScannerRunRecord`, `scanner_run_upsert.go`, fenced finding writes, `queueToolCancellation` in `scan_events.go`) | `scanner_run_records` and `findings` by tool | queue, start, record, insert, reset, cancel one tool |
| Tool admission (`internal/scan/runner/scheduling.go`, `Run` in `runner.go`) | per scan: slots by class; per Docker daemon: CPU, memory, the `changed` channel | ask, wait, wake, admit, release, skip, refuse |
| Fix jobs (`internal/db/fixjobs.go`, `fix_creation.go`, `fix_cancellation.go`, `fix_handoff.go`, `internal/fix/lineage`, `routes/fixes.go`) | jobs with revision, `claimed_by`, `claimed_at`; remediations (sessions) with a branch and a workspace; child scans | create, claim, heartbeat, reclaim, write a result, cancel and clean up, resume, hand off, scan the result, follow-up run |
| Release builds (`internal/db/scannerrelease_repository.go`, `internal/scannerreleaseworker`, `routes/scanner_supply_chain.go`) | candidate, build attempts, steps, each with a version; lease; command keys of the events | claim, run the plan step by step, record the policy decision, finalise, advance or fail the candidate, cancel, retry |
| Release workers (`internal/scannerdiscoveryworker`, `scannerproposalworker`, `scannerregistryworker`, `scannernotificationworker`) | one leased row each | claim, heartbeat, reclaim, final write, release, dead letter, operator's cancellation and retry |
| Publication (`publishScanResults` in `routes/gates.go`, `scan_completion.go`, `finding_snapshots.go`, `finding_baselines.go`, `routes/sarif.go`) | the findings revision, the captured ignore policy, the gate result, the executor's snapshot | capture, cluster, classify, snapshot, complete with up to three tries, evaluate and store a gate, import |
| Findings, clusters, suppression (`finding_clusters.go`, `finding_suppressions.go`) | suppression and triage of each finding, primaries, rules | insert, reset, triage, create, revoke or expire a rule, finalise |
| Rollout (`internal/scannerrollout`, `ClaimNextRollout` to `ReleaseRolloutClaim` in `internal/db/scannerrelease_repository.go`, `routes/scanner_supply_chain.go`) | rollout, cohorts, their deadlines, the claim, the events a resume reads; per cohort the files of the Compose deployment and the workers' assigned release | claim, reconcile pass, lifecycle calls, assignment, health, promotion, pause and resume, rollback |
| Custom builds (`internal/db/scanner_custom_build_repository.go`, `internal/scannercustombuildworker`) | the build and its variants | claim, start, build, report, finalise, time out, cancel, retry |

How they interact: the executor is called by the worker, which cancels its context
when a heartbeat finds the lease lost or cannot renew it for too long. The executor
and the API process share only the database: a cancellation is a column, which a
500 ms watcher turns into a cancelled context. `runner.Run` calls the executor back
(`OnToolsSelected`, `OnToolStart`, `OnToolDone`) from one goroutine per tool; the
callbacks write to the database with a background context, so they go on after the
executor's context is gone. All scans of a worker process that use the same Docker
daemon share one resource pool.

The fixer is a process of its own that is not in the repository; it calls the store
and the lineage package, which enqueue a child scan (a row of the scan queue) after a
run, and the scan executor calls back `MaybeEnqueueNextRun` when that scan completed.
A discovery run yields candidates, a proposal worker turns a candidate into a build
plan, the release worker runs it and moves the candidate on; they share the database
and nothing else. Promotion of a qualified release makes a rollout, whose controllers
drive the deployments of its cohorts. The operator's requests change the same rows.

What is hard: a slot that freezes, is partitioned or whose statements hang keeps
executing a scan that somebody else has been given; the executor reads the row,
its token included, more than once and writes whole copies back later; a crash can
fall between any two statements of a tool's report; a user cancels while all this
goes on; errors of some statements are handled and of others dropped; waiters for
resources hold nothing and must be woken by whoever releases, in whichever scan.

What makes them correct: one owner per scan and no effect of anyone else;
a cancellation is never undone; at most `max_attempts` attempts and then an end;
a completed scan has one run's findings of every tool it reports; recovery keeps
the completed tools and repeats the others from nothing; limits hold and every tool
gets its turn or is refused. For the other jobs: one agent per branch and no removed
checkout under anyone's feet; no end of a build by somebody without its lease; an end
that is true of the parts, and of the deployment; no cancellation forgotten; no attempt beyond the budget;
and everything ends.

### Not modelled in this version

| Part | State and operations | Hard behaviour, and what would make it correct |
| --- | --- | --- |
| Durable events and streams (`AppendScanEvent`, `routes/scan_events.go`, `api/sse`) | sequence numbers per scan, cursors of clients | a resumed stream misses and repeats nothing and ends after the last event |
| Consoles, workspaces on disk (`console_claim.go`, `fixer_console.go`, `fix/workspace`) | console lease, clones | one console per job; mostly I/O |
| Release steps, qualification, promotion (`scannerreleaseadapter`, `scannerreleasebackend`, `scannerreleasescheduler`) | external registries, policies | external execution; the scheduler's one run per due time |
| Authentication (`internal/auth`) | sessions, refresh tokens, MFA state | each refresh token and each MFA step is usable once under concurrent requests |
| Schedules (`serve`, `scannerschedule`) | next due time | one run per due time with several replicas |
| Source preparation, remote nodes (`scantarget`, `gitops`, `repo`, `remote`, `sshclient`) | workspaces on disk | mostly I/O; the retained workspace against clean-up by another worker |
| Scoring, enrichment, fingerprints, quality policies, canonical vulnerabilities (`finding`, `enrich`, `vulnerability_clusters.go`) | rows derived from findings | data transformation inside the transactions `ScanPublication` has |
| Plugins and container runtime, reports, coverage, AI, UI, CLI | | external execution and formatting: out of scope |

`PROJECT.json` lists the hazards of the code line by line, with the property that
covers each or the reason why none does yet.

## 2. Modules

```
ScanJob            what the queue promises of one scan
   ^ implemented by (ImplementsScanJob)
ScanLease          one row, its claims, leases, clocks, stale copies
   ^ EXTENDS: MCScanLease, ScanLeaseProofs
ScanEvidence       records and findings of one scan, recovery, tool cancellation
   ^ EXTENDS: MCScanEvidence, ScanEvidenceProofs
ToolAdmission      slots of the scans of one process
   ^ EXTENDS: MCToolAdmission, ToolProofs
FixJobs            jobs, sessions, child scans and checkouts of one repository
   ^ EXTENDS: MCFixJobs, FixJobsProofs
ReleaseBuild       a candidate, its build attempts, their steps, their workers
   ^ EXTENDS: MCReleaseBuild, ReleaseBuildProofs
LeasedJobs         the four queues around the release factory
   ^ EXTENDS: MCLeasedJobs, LeasedJobsProofs
ScanPublication    findings, clusters, rules, gates and completion of one scan
   ^ EXTENDS: MCScanPublication, ScanPublicationProofs
CustomBuilds       a custom build, its variants, their workers
   ^ EXTENDS: MCCustomBuilds, ToolProofs
Rollout            one rollout, its cohorts, its controllers and the deployment
   ^ EXTENDS: MCRollout, RolloutProofs
```

`ScanLease` says when a claim can be lost; `ScanEvidence` only uses that it can, at
any moment, and follows what an executor then does to the evidence. `ToolAdmission`
refines the moment between `OnToolsSelected` and `OnToolStart` of `ScanEvidence`.
`ScanPublication` follows the findings from their insertion to the published result; it
takes the tools recovery repeats as given (`ScanEvidence` says which) and loses a lease at
any moment (`ScanLease` says when). `FixJobs` sees a child scan as a row that is pending and then over. `LeasedJobs` ends
where a candidate has its plan, which is where `ReleaseBuild` begins; `Rollout` begins
where a release that was built has been promoted.

The modules of jobs, builds and queues share some habits. A transaction is an action; a handler or
worker that takes several is split between them, and `held[w].pc` names the next one.
A lease token is the number of its claim. A lease is a bit, `fresh` (`beat`): it runs
out at any moment once nobody holds the claim (`Expire`), and at the price of a fault
while its worker is alive (`Suspend`: a paused container, a partition). `Crash` is
also the end of a drain time. `Fault` counts crashes, suspensions and failing calls.

### ScanLease

One action per database statement; what the executor keeps between two statements is
a variable. `scan` is the row; `claim[w]` the token the claim returned (which
`scanHeartbeat` uses); `fence[w]` is `executionLeaseToken`, which `executeScan`
*reads back* from the row; `copy[w]` a whole-row copy that will be written
(`scan` after `StartScanExecution`, or `s` in the callbacks); `live[w]` the context;
`beat`, `renewed`, `call` the ticker, the age of `lastSuccess` and the statement
under way; `publisher`, `budget` are history and bounds. Phases are the stations of
`executeScan`:

| Phase | Code | Leaves by |
| --- | --- | --- |
| idle | `claimLoop` | `ReclaimStaleScans`, `ClaimNextScan` |
| claimed | scans.go:510 | `LoadToken` (the row is read) |
| loaded | :517 | `StartScanExecution`, `AbandonStart` |
| started | :526 | `LoadScan` (second read: the copy) |
| preparing, prepared | :530-634 | `PrepareSource`, `SaveSource`, `PrepareFails` |
| scanning, updating | runner callbacks | `ReadProgress`, `WriteProgress`, `FinishRun`, `AbandonRun` |
| completing, finalizing, failing | `CompleteScan`, `FinalizeScan`, `failPreparedScan` | themselves |

A lease token is a UUID in the code and the number of its claim here, so a fresh one
never equals an older one. Times are ticks; expiry is kept as "ticks left", which
makes the behaviours finite and lets a stale copy carry its own old expiry: `Tick`
counts the copies' expiries down as well. `OnTime` says what an unfrozen process can
be relied on: it serves its ticker within a tick, a heartbeat statement takes at most
`CallTicks`, and a copy is written within `CopyTicks`. A frozen process (`Stall`)
does none of this, which is how a paused container or a partition looks to the row.
`StopWorker` is SIGTERM: the context goes, and the executor fails the scan in the
ordinary way rather than handing it back.

Abstractions: other columns than the lease columns, status and cancellation; reports
and gates are success or failure (`CompleteFails`); a failing read returns like a lost
claim, and a database error that merely ends the executor looks like `Crash`. A
heartbeat that is still under way when its executor returns is dropped. The branch of
`process` that finalises after an executor error is unreachable with the executor
`wolf scan-worker` installs, which always returns nil. `UpdateScan` reports no error
when its WHERE clause rejects the row, and neither does the model. The inline mode
(no worker, empty tokens throughout) is not modelled; the *empty token of a reclaimed
row* is.

### ScanJob

Three variables: status, attempts used, result. A scan is started at most
`MaxAttempts` times, ends once, and a completed scan carries the result of its last
attempt. `ScanLease` implements it with `attempt <- claims`, `result <- publisher`.
It counts claims and not the column `attempt`, so that the refinement does not rest
on the number it is meant to justify.

### ScanEvidence

`record[t]` is the run record of tool `t` (`once` is history: was it ever recorded as
completed), `evidence[t]` the claims whose executors inserted findings of `t`,
`reported` is `tools_completed` of the finished scan. An executor reads its token and
row in one step, `Begin` (`ScanLease` has the windows in between; the constant
`LateToken` says whether a claim can be lost before that step), then loads the records
if this is not the first attempt (`LoadEvidence`), resets the findings of every
recorded tool that is not completed, one statement each, and lets the runner have
the others. Each tool then goes through `OnToolStart`, `OnToolDone` (first ownership
test), `CreateFindingsForScanLease` (fenced insert), `RecordTool`; all tools and
executors interleave. `Fallible` says which statements can return an error.
`FindNoRecord` and `InsertCancelledRecord` are the two halves of
`queueToolCancellation` for a tool without a record.

Abstractions: a tool run that ends has found something (a run that found nothing
leaves no evidence to lose); the runner's skipped tools and missing images are left
out; the map of cancel functions is the case of API and worker in one process and is
left out; the tool names come from the request, so the tools are the same in every
attempt; `UpdateScan` of a callback is one step here.

### ToolAdmission

One action per critical section of `acquireResourceSlots`, plus the goroutine around
it. A tool is `created`, `asking` (about to lock), `waiting` (on the channel it has
read), `running`, and ends `done`, `refused` (its demand exceeds the whole budget)
or `skipped` (cancelled first). `slots[s]` are the counters of a scan's
`resourceSlots`, `used[p]` the sums of a pool, `changed[p]` numbers the channel that
the next release closes, `seen[t]` is the channel a waiter selects on: it wakes when
the two differ. A scan that could not detect its daemon (`DetectScheduling`'s
fallback) has its own pool without a budget.

Abstractions: CPUs and memory are integers (the code's CPUs are a float64, see the
hazards); the plan, sizes and classes are constants, i.e. what `DetectScheduling`
computed; tools are finitely many.

### FixJobs

`jobs`, `rems` and `scans` are the tables in creation order. A read-modify-write
carries only the revision it read: every write but a heartbeat moves the revision, so
a write that lands found the row it read, and the model writes the current row under
the condition that the revision is still the one read (`MayWrite`).

| Action | Code |
| --- | --- |
| `CreateFix`, `Enqueue` | `createFixJob`: session open or new, not frozen, no scan, no busy job; supersedes the paused ones |
| `Claim`, `Claimable` | `claimNextFixJob` and its query |
| `Heartbeat`, `Reclaim` | `heartbeatFixJob`, `ReclaimStaleJobs` |
| `StartEngine`, `Finish` | the fixer's two `updateFixJob`, the second with the result |
| `AfterRun`, `SupersedeSiblings`, `Conclude` | the three parts of `AfterAgentRun` |
| `EndScan`, `NextRunCheck`, `NextRunCreate` | end of the child scan, the checks and the insertion of `MaybeEnqueueNextRun` |
| `CancelRead`, `CancelWrite`, `CancelCleanup` | `CancelFix`, which reads, writes and then releases the checkout |
| `Acknowledge` | the worker of a cancelled claim, after its engine has returned |
| `ResumeRead`, `ResumeWrite`, `Accept` | `ResumeFix`, `AcceptRemediation` |

A workspace is named by the claim that made it; `checkouts` are those on disk, `lost`
those removed by a clean-up whose transaction then failed to commit. The order in
which the fixer calls the store is the one
docs/validation/2026-10-24/fix-leases.md describes; these actions are external.

Abstractions: one repository, one user, one branch name per origin; jobs made from
loose finding ids have no session and are left out; a job is written by its worker
twice, progress in between is left out; `SupersedeSiblings` lists the jobs and writes the
paused one, of which a session has one at most, in one step that may instead meet a
conflict and end the run, as `AfterAgentRun` does; published
commits and pull requests are the flag `pushed`.

### ReleaseBuild

`cand` is the candidate with the command keys used on it, `builds` its attempts,
`steps[b][s]` the latest attempt of a step. `MoveCandidate`, `MayMoveBuild`,
`MayMoveStep` are `transitionState` on the three tables: the version read, the
transition table of `state.go`, the cancellation that admits only `cancelled`. The
worker's program counter follows `processClaim` (`Load`, `Lease`, `Start`,
`MarkStarted`), `executePlan` (`Plan`, `Recover`, `Decide`), `executeStep`
(`CheckStep`, `Begin`, `Exec`, `CheckResult`, `Evidence`, `Finish`, `Record`),
`finalizeBuild` (`FinalCheck`, `FinalWrite`) and what follows for the candidate.
`Monitor` is the goroutine that cancels the plan with a cause, which every later call
of the plan sees.

A key that is scoped to the candidate is a member of `cand.keys`; the worker's build
and step keys contain the lease token or the attempt and never repeat, so they are
left out. Abstractions: `max-parallel-steps` is 1; a step's execution is its outcome;
the candidate writes of the worker, each of which reads the row and writes it under
the version just read, are one action each. An end of the candidate is two: the evidence
(`FailEvidence`, `BlockEvidence`, `PolicyEvidence`) and the transition (`FailCandidate`,
`BlockCandidate`, `PolicyBlock`), which reads the row again. `CancelCandidate` is one
action; publication of an approved
candidate and the loss of its workspace are not followed.

### LeasedJobs

One job whose `kind` is chosen initially. What differs between the queues has an
operator per queue: what a claim requires, what a reclaim makes of the row, what the
worker does about a refused heartbeat, what a final write requires. `Work` lets the
worker choose any result its queue has. `FinalHeartbeat` is the extra renewal of the
discovery and proposal workers, and `FinalizeDiscovery` repeats it once after a
version conflict. A proposal's row is the candidate, which `RejectCandidate` may take
away, and its plan is a transaction after the final one (`EnqueuePlan`), made good
by `ReconcileQueued`.

Abstractions: back-off times, payloads, the jobs' creation, and the external work.
A poll reclaims, then claims; each is a step.

### ScanPublication

One scan, native or imported, and one cluster of its findings. `row` is the scan's row
with `rev`, the `findings_revision`; `cluster` the findings that are stored, open and
suppressed (`hidden`), the `cluster_id` they share (`root`) and the identity each was
classified by (`key`); `gate` the row of `quality_gate_results`; `exec[n]` what the
executor of attempt `n` has in memory. Whatever can touch one of them is an action:

| Action | Code |
| --- | --- |
| `Create`, `Claim`, `Reclaim`, `RequestScanCancellation` | the row, as far as publication is concerned |
| `ResetTool`, `InsertFindings`, `ImportFindings` | `DeleteFindingsByScanTool`, `CreateFindingsForScanLease`, `CreateFindings` |
| `CollectEvidence`, `CaptureIgnorePolicy`, `FinalizeClusters`, `PersistBaseline` | the tail of `executeScan` and of `ImportSARIF` |
| `PublishSnapshot`, `CompleteScan`, `RetryPublication`, `CompleteUnheard` | `publishScanResults` around `completeScan` |
| `FinalizeScan`, `EvaluateFailed`, `StoreFailedGate` | the end of a failed scan and its gate |
| `EvaluateGate`, `StoreGate` | `GetScanGate`: a snapshot, and `upsertQualityGateResult` |
| `Triage` | `updateFindingClusterStatus` |
| `BeginRule`, `CommitRule` | a transaction of `finding_suppressions.go`: repository lock and list of scans; projection, promotion, count, revision |
| `UpdateFinding`, `RecordAssessment` | the two writes at the end of `runAIAssessment` |

A rule transaction holds the repository's lock from its first statement, so
`PersistBaseline` and `completeScan`, which ask for it, wait (`ruleTx = "none"`). It
locks the scan only later: an insert or a capture in between is projected by it, and one
that waits for that lock reads the rule afterwards; `CommitRule` is therefore one step.
`missed` and `reopened` are history for two exceptions of `Represented` (observations).

Abstractions: one cluster and one rule; a gate is the set of unsuppressed primaries with
their classification, which is what `gates.Evaluate` is a function of (a triage status is
not); the completeness half of `EvaluateScan` is a function of the row's status; until a
policy is captured, readers apply the checkout's policy of the moment, and that gate is
`pending`; which scan is the baseline, artifacts, quality policies and canonical
vulnerabilities are left out; a failing reset belongs to `ScanEvidence`.

### CustomBuilds

Where a transaction reads the lease and then writes a row that has none, or counts
rows and then writes another, PostgreSQL's READ COMMITTED lets others in between: the
pairs `Take`/`Start`, `Report`/`Record` and `Tally`/`Finalize` are two actions for
that reason. `held[w].stop` says that the build's context ended (a refused heartbeat
or the operation timeout), `failing` that the worker goes on with the calls that only
report failures (`finishInterrupted`, `failWithoutSecretDetail`) and have another
context. Any error ends the process; the lease brings the build back.

Abstractions: logs are the one thing their refusal does; the order of the variants;
back-off; credentials are a choice in `List`.

### Rollout

A controller claims the rollout, makes one pass and releases the claim. `held[w]` is
its pass, `held[w].pc` the next transaction or call of it:

| Action | Code |
| --- | --- |
| `ClaimNextRollout`, `ReleaseRolloutClaim` | the two transactions, with the event each appends |
| `CheckLease`, `Stop` | `checkLease`, in front of every write and call (`Guarded`) and in the pass's monitor |
| `Reconcile` | what the pass reads, and the decision it makes of it: `reconcilePaused`, `reconcileRollback`, the gates of `ReconcileOnce` |
| `ApplyLifecycle` | one pause, resume or cancel call of `applyLifecycle` |
| `StartAssignment`, `Deploy`, `Readback`, `AssignWorkers`, `AcceptAssignment` | `ensureAssigned`: the row; `Assign` in three parts, `ComposeControl.Apply` unless the deployment matches already, its readback and the status rows; the row again |
| `Health`, `RecordHealth`, `SettleCohort`, `Move` | evidence, its record, the cohort's state, the rollout's transition |
| `Operate`, `AskResume`, `Resume` | the requests; a resume reads the events and writes later |
| `PassDeadline`, `CloseGate`, `RevokeRelease` | the clock and the operators, as far as a pass sees them |

A version is modelled by what a reader can tell: `held[w].cur` says that the rollout has
not been written since `w` read it, and `held[w].known` of which cohorts that is true.
The runtime is `CohortDeploymentRuntime` over `ComposeControl`: `dep[c]` has the operation
in `observed.json` and the word in the control file. `late` is history for what a
replaced controller did. A lease check in front of a read is one step with the read,
because what was read is used only after another check.

Abstractions: health evidence is a verdict (`EvaluateCanary`'s thresholds, image caches
and synthetic scans are not followed); the Kubernetes control; `available_at`; other
rollouts on the same target; `Controller.Cancel`, which only tests call. A deadline and a
gate change only when a controller is about to read them, and of several idle controllers
one claims: neither can be seen by anyone.

## 3. Runs

Slots are symmetric in `resume` and `stale`, which have only safety. Two slots are enough for every
interleaving of a holder with one stale executor; a third adds a second stale
executor, which differs from the first only in its older token. `MaxClaims` is 3
with `max_attempts` 2 (what `persistScan` sets), one more than the code should allow,
so that the bound of `ScanJob` can be violated.

| Run | Bounds | Shows |
| --- | --- | --- |
| `ScanLease_freeze` | lease 3, heartbeat 1, one freeze while the tools run or the end is written, one crash, two heartbeat errors, fairness | a cancellation is never undone (`CancelIsFinal`), heartbeats that fail stop the executor in its window (`StopsInTime`), the queue implements `ScanJob` (`ImplementsScanJob`), hence bounds its attempts, ends once and publishes the latest claim's result, and every scan ends (`EventuallyFinished`) |
| `ScanEvidence_resume` | two tools, two attempts, a user cancelling one of the tools, one failing read or insert of findings | completed tools are kept (`CompletedKept`), the holder's findings are safe (`HolderEvidenceSafe`), a completed scan has the findings of its completed tools (`CompletedHasEvidence`), a completed tool's findings are one run's (`OneRunPerTool`) and a cancelled tool stays cancelled (`ToolCancelSticky`) |
| `ToolAdmission_shared` | five tools of all classes in two scans on one daemon | `Accounting`, `NoLostWakeup`, and under fairness `EveryToolEnds` |
| `FixJobs_queue` | three jobs, three sessions and one child scan on one branch of two origins, two planned runs, two fixers, two user requests, one fault | no two agents on a branch (`OneActivePerBranch`), one run per session (`OneRunPerSession`), no checkout removed under a job, a scan or a running engine (`CheckoutSafe`, `EngineKeepsCheckout`), a follow-up follows a success (`FollowsSuccess`), stale writes are refused (`Fenced`), and under fairness `QueueDrains` and `CancelAcknowledged` |
| `ReleaseBuild_owner` | two workers, a plan of two steps with two attempts each, two build attempts, one cancellation, one fault | the plan is honoured across takeovers (`DependenciesFirst`, `CompletedHasPlan`), one attempt at a time lives (`OneLiveBuild`), only the owner ends a build (`EndedByOwner`), an approvable candidate has its evidence (`ApprovableIsEvident`) |
| `LeasedJobs_kinds` | every kind of job, three workers, three attempts, three faults, one retried dead letter | `CancelHonoured`, `SettledByHolder`, and under fairness `Settles` and `Planned` |
| `CustomBuilds_variants` | two variants, two workers, two attempts, three faults | `VerdictMatches`, `NeverRebuilt`, and under fairness `Settles` |
| `ScanPublication_publish` | three findings, of which the rule matches one and the ignore policy a more severe one; two attempts or an import; three triages or rule changes; one failing statement or lost answer | a stored gate is the present findings' (`GateCurrent`), rules, primaries and classification agree (`ProjectionCurrent`), a scan completes with one revision's findings, count and gate (`CompletesWhole`), and fails of contention only when users changed it three times (`OnlyContention`) |
| `Rollout_reconcile` | a canary and the stable cohort, two controllers, four snapshots of a rollout, one request, one fault | cohorts are promoted and restored in their order (`DeployedInOrder`), an ended rollout is where it says (`EndsAsDeployed`), and under fairness a pause reaches every deployment (`PauseHolds`) and a rollback ends (`RollbackEnds`) |

A freeze in `freeze` starts while the tools run or later (`WhileRunning`), when the
executor has its token and its copy, because of the first two observations below. With a freeze between the two reads of the row,
`FinishedIsFinal` is violated: the copy then has the empty token of a reclaimed row,
and `UpdateScan` does not fence a copy with the empty token. `RowsSound` and
`CancelIsFinal` do not depend on where a process freezes, as their proofs show.

Three runs check one sentence of the repository each and find it violated. The windows
are narrow in practice, and the code does not exclude them:

| Run | Sentence | What happens |
| --- | --- | --- |
| `ScanLease_heartbeat` | no "two active executors" (internal/scanjob/worker.go:249-251) | no failure at all: preparation outlasts the lease, every heartbeat succeeds, then `SaveSource` writes back the old `lease_expires_at` (`LiveExecutorOwns`) |
| `ReleaseBuild_stale` | the worker "Stops publishing immediately if the lease expires or transfers" (docs/scanner-release-worker.md:253) | a worker suspended past its lease finds its step write in conflict with the new owner's, fails the candidate although its `finalizeBuild` was refused, and the new owner completes the build of a failed candidate (`CompletedIsNotFailed`) |
| `Rollout_pause` | "Resume rollout at its persisted boundary" (internal/api/openapi/spec.go:329) | no failure at all: an operator pauses, a controller claims the paused rollout to pause its deployments, and the event of that claim, paused to paused, is now the latest that a resume reads; every resume is refused (`PausedIsResumable`) |

### Observations outside the runs

The following are violations or gaps that no run of the set repeats. Each was seen
with the constants named, and can be seen again by changing them in the cfg.

- `ScanLease`, freezes allowed from the claim on: an executor frozen between claim and
  first read finds the row reclaimed, reads the empty token, and starts the pending row
  without a lease; nothing ever reclaims it (`LeasedWhileRunning` is violated, against
  internal/scanjob/worker.go:1-3).
- `ScanEvidence`, `LateToken = TRUE` (one tool, no user cancellation): an executor that
  lost its claim before it reads its token from the row (routes/scans.go:516) takes the
  next holder's as its own, passes every fence with it and resets the holder's findings
  (`HolderEvidenceSafe`), against "a superseded or cancelled executor must not erase
  findings written by the current lease holder" (postgres_scanqueue.go:141-142).
- `ScanLease`, `CallTicks = 3` with a lease of 5 and a heartbeat of 2, no freeze, no crash,
  one error: a heartbeat statement that takes longer than the rest of the window keeps its
  executor running past it, because its context has no deadline and the clock is
  compared only after an error (`StopsBeforeWindow`, against "Stop this executor before
  that ownership window elapses", worker.go:249-251). `StopsInTime` holds with the same
  constants and three errors.
- `ScanEvidence`, failing ownership reads (`Fallible <- OwnedErrors`, `Tools <- OneTool`,
  `Cancellable <- Nothing`): when the read of `OnToolDone` fails (routes/scans.go:815) the
  findings are dropped and the scan completes (`CompletedHasEvidence`), against "finding
  insert/read/update errors fail the scan" (CHANGELOG.md:195).
- `ScanEvidence`, user cancellation: a cancellation decided on an old reading overwrites
  a record completed meanwhile; the next attempt resets the tool
  (`CancelPreservesFindings`, routes/scans.go:2241-2242).
- `ToolAdmission`, one scan without a detected daemon (`DetectScheduling`'s fallback,
  two pools): `WithinLimits` and `NoLostWakeup` hold; the theorems say so for all pools.
- `ReleaseBuild`, `MaxBuilds = 2` and two decisions: the retry of a blocked candidate
  that reaches another policy decision fails, because the key `policy-decision` is
  scoped to the candidate and used already (`FailureHasCause`; worker.go:1218,
  migrations/030_scanner_release_management_postgres.sql:346). A candidate cancelled twice
  is not blocked the second time for the same reason, and `markCandidateStarted` replays
  its key for a retried candidate and leaves it `queued`.
- `ReleaseBuild`, liveness: a cancellation of a queued build only sets
  `cancel_requested_at`, and the build is neither claimed nor reclaimed; a worker that
  stops between `finalizeBuild` and the candidate's transition leaves a candidate that
  nobody advances; one that stops before `recordPolicyDecision` leaves one that cannot be
  advanced. A cancellation the monitor finds between two steps makes the next
  `checkLease` report a lost lease, and the build waits for its reclaim; one found after
  the execution leaves the step `running` in a cancelled build.
- docs/scanner-release-worker.md:267-269 says a running build whose worker is lost is failed
  as `worker_lost`; `ReclaimStaleBuildRuns` queues it again, and the model does too.
- `FixJobs`: a cancelled job whose worker died keeps `claimed_by`, and nobody can release
  its checkout (`CancelAcknowledged` excepts it); a queued job on its branch and its
  clean-up wait for each other (`QueueDrains` excepts it); `SupersedeSiblings` of a
  stalled worker supersedes a newer paused job; a process that ends after a child scan
  loses the follow-up run; a job that kills its worker is reclaimed without a bound.
- `LeasedJobs`: `EnqueueCandidateBuildPlan` does not look at the candidate's state, so a
  rejected candidate can get a plan; `reconcileQueuedCandidate` enqueues the default
  images also when the finalising worker held others.
- `CustomBuilds`: a variant can be left `running` in a build that is partial or failed; a
  cancellation first seen by a log line ends the process instead of finishing the build
  (docs/scanner-custom-builds.md:90-95 describes the latter; the reclaim does it later).

- `ScanPublication`: a scan that is created and ingested between the `SELECT` of a rule
  transaction and its commit keeps the old projection for ever (`missed`), against the
  comment "A concurrent rule mutation waits on that lock and reconciles the inserted
  rows" (finding_suppressions.go:231-234).
- `ScanPublication`: triage does not choose a cluster's primary again. A cluster that is
  closed, whose primary a rule then suppresses, and that is reopened hides its open,
  unsuppressed members behind the suppressed primary, in lists, count and gate: without
  `\/ reopened`, `Represented` is violated. runner.go:183-184 says of the choice "An open,
  unsuppressed member must stay visible even when a higher-severity member was individually
  suppressed or triaged"; any later change of the rule repairs it.
- `ScanPublication`: `finding_count` of a scan can be older than its findings: the AI
  assessment's `UpdateScan` (scans.go:2952, a copy with the empty token) and `FinalizeScan`
  write the count they remember over the one a rule transaction refreshed meanwhile.
- An import whose process ends stays `running`: it has no lease, so nothing reclaims it.
- `fleet_evidence.go:192` reads failed gates without the join on revision and status that
  `GetQualityGateResult` has, and so counts superseded ones.
- `Rollout`: `PromoteRelease` (scannercontrol/service.go:600) stores the row of the policy
  instead of its rules; it has no `schema_version`, so the controller's `rolloutPolicy`
  (scannerpolicy/policy.go:325) refuses it, and every promoted rollout goes to `failed`
  with `invalid_policy_snapshot`, against docs/scanner-release-worker.md:283-294. These
  are the snapshots `Promoted`; the others are what a stored policy document would be.
- `Rollout`, late calls (without `late` in the properties): a replaced controller can
  resume a deployment its successor has paused or cancelled, or deploy the new release
  after a rollback. `ComposeControl.Apply` returns without writing when the operation is
  the one observed, whatever the control file says, so the readback then fails in every
  pass, before the deadline is looked at, and the rollback never ends. A replaced
  controller can also complete a rollout: its transition compares versions only.
- `Rollout`: a deployment that does not match while all its workers have failed makes the
  snapshot invalid, an error before the deadline is evaluated; nothing keeps two rollouts
  off one target; the end date of a maintenance override (`override`) is read by the
  controller and written by no code; `scannerResumeState` reads the first 200 events only.
- Two dropped errors of the record upsert (`upsertScannerRunRecord` ignores them) leave
  findings without a record, which no recovery resets.

Type invariants are not among the runs' properties: those of all components are proved
(section 4), like `RowsSound`, `CancelKept` and `GivenUpAtBudget`. `WithinLimits` of `ToolAdmission` is proved and not repeated. `AttemptBudget` and `PublishedByOwner`
of `ScanLease`, and that an ended scan keeps its status and result, follow from
`ImplementsScanJob`.

Bounds. Attempts, crashes, freezes and errors are the least number with which the
hazards of their kind show; claims are one more. Ticks:
`freeze` has a lease of three heartbeats, so that it outlives a missed one and its
window closes before it ends, as with the defaults (45 s and 10 s). `heartbeat` uses the
ratio of the defaults, in units of 5 s. `CopyTicks` is 0 in `freeze`, where a copy is held
for the time of two statements (a frozen process still holds one for as long as it
likes), and the whole lease in `heartbeat`, where it is the source preparation. `CHECK_DEADLOCK FALSE`
appears where scans, tools, jobs or rollouts simply end; in `ScanLease` time never stops, so its runs
do check for deadlock. The others: two workers are a stale holder and its successor;
a third, in `kinds`, meets a second expiry. The views of `owner` and `publish` identify
states that differ in numbers which are only compared with later ones, and in memory
whose steps are all refused or over; the MC modules say why. One fault in `queue` and `owner` is one lost
or stale worker; each of the cases above needs just one. Two planned runs are the least
with a follow-up, three jobs the least with a follow-up and a rival on the branch, and
two steps the least with a dependency. The engine's results in `queue` are an unpushed
success, which is scanned and followed, and a failed push, which freezes the session and
can be resumed; other results end the job at once.

`publish`: with two members the rule either moves the primary or hides all; the third is
what it moves to when both others are hidden. Two attempts are a recovery beside a stale
executor; three changes are the least that can use up the three tries. `MCView` makes one
state of those that differ in the number of the revision, in what a snapshot of an earlier
revision contains, or in the memory of an executor whose every further write is refused:
revisions and leases never come back, so nothing that follows can tell them apart.

`reconcile`: two cohorts are what `PromoteRelease` makes; with one request a user pauses,
rolls back or withdraws a release, and with one fault a controller dies, is suspended past
its lease or has a call fail, once, which is all that any takeover needs. The snapshots
have a release to go back to or none, and a policy that can be read or not.

Fairness. `ScanLease`: clocks advance, every slot polls (`claimLoop` sleeps and
retries for ever), a goroutine that can take a step does, a watcher ticks every 500 ms,
a frozen process is thawed eventually. `EndRun` alone is strongly fair: callbacks
between `ReadProgress` and `WriteProgress` disable it again and again, but there are
only finitely many per scan, so it is enabled for good in the end. No fairness on
starting, cancelling, failing. `ToolAdmission`: a goroutine that can run does, and a
tool run ends (each has a timeout). A waiter needs no more than weak fairness because
finitely many tools can overtake it; with an unbounded stream of scans a tool that
needs the whole budget could starve.
In `FixJobs`, `LeasedJobs` and `CustomBuilds` a live process takes its next step, polls
repeat, time passes and, in `FixJobs`, HTTP requests and child scans end and
`ReclaimStaleJobs` is called (by the fixer: the repository offers it and calls it
nowhere itself). Heartbeats are not fair, and
nothing makes a user act. In `Rollout` controllers poll for ever and leases run out;
`PassDeadline` is strongly fair, because the model offers it only when a deadline is about
to be read, while the clock does not stop in between. `ReleaseBuild` and
`ScanPublication` have no liveness property (see the observations).

## 4. Proofs

TLAPS checks the following for every value of the constants that satisfies the
assumptions `LeaseAssumption`, `EvidenceAssumption` and `AdmissionAssumption` (numbers are
naturals, some positive; a tool's scan is a scan; an exclusive tool is heavy, which is the
first line of `acquireResourceSlots`), `ReleaseAssumption`, `JobAssumption` and
`BuildAssumption` (bounds are naturals, budgets positive, the plan's dependencies are
steps), `FixAssumption` (bounds are naturals, some positive; `None` is no worker; the
ends of an engine run are results), `PublicationAssumption` (members are finitely
many and their severities are distinct numbers) and `RolloutAssumption` (there is a
cohort, snapshots have the fields of one, `None` is no controller, bounds are naturals).
Seven theorems have a hypothesis more, which they state: of `ScanLease` that the lease
outlasts a heartbeat (`StopsInTimeHolds`), that executors read their token in time
(`QueueImplementsScanJob`) and the timing that makes them (`FencedWhenPrompt`); of
`ScanEvidence` the faults. They are explained below. Facts about all finite sets (a nonempty set has a largest
element, a fold splits off any element) are proved by a smallest counterexample, that is
from the well-foundedness of `<`: the library's induction theorems take an operator as a
parameter, which no installed prover instantiates.

`ScanLeaseProofs`
- `TypeCorrect`: `Spec => []TypeOK`; `RowsStaySound`: `Spec => []RowsSound`;
  `CancelStaysFinal`: `Spec => CancelIsFinal`.
- The inductive invariant is `IInv == TypeOK /\ RowsSound`. Neither half is inductive
  alone: a write takes its row from an executor's memory, so the row's type rests on
  the executor having read one (`CopyHeld`), and the attempt's range rests on a queued
  row having an attempt left (`Sound`), in the table and in *every* copy, because any
  of them may be what the table holds next. The action property then follows per
  action: the statements that test `cancel_requested_at` do not apply, and `UpdateScan`
  is accepted only for a copy that saw the cancellation and, being sound, is ended.
- This holds for any number of slots, freezes, crashes and for the unfenced write with
  an empty token: what survives even the windows shown above is that a cancelled scan
  stays cancelled.
- `StopsInTimeHolds`: `HeartbeatTicks < LeaseTicks` implies `Spec => []StopsInTime`, for
  statements of any duration. `Clocks` says of every executor no freeze has held up what
  its deadlines leave: it has been told to stop, or its next heartbeat comes before its
  window closes, or it waits for the answer to one. `StopsInTime` is not inductive, because
  it only speaks of the moment the window has closed. The hypothesis is what `New` sees to
  for the leases it keeps (worker.go:76 replaces one of two heartbeats or less by 45 s, so
  with a heartbeat of 45 s or more it fails). What the property excepts, the wait itself,
  is the observation on `StopsBeforeWindow`.
- `QueueImplementsScanJob`: `Spec /\ []FencedInTime => ImplementsScanJob`. `FencedInTime`
  says that no lease is left to run out under an executor that has not read its token yet:
  the window that the first two observations show open. Nothing is assumed of
  how long statements take or of where processes freeze beyond that.
  `FencedWhenPrompt` says when behaviours are such: under `Prompt` (the lease outlasts a
  heartbeat, `CallTicks = 0`, and no freeze begins between a claim and the executor's first
  reads) `Spec => []FencedInTime`, because the stored lease covers at least the window of a
  starting executor (`LeaseCovers`). The invariant of the refinement is `Ownership`: a
  leased row's token is the number of its attempt (`RowOwned`), no two executors have the same
  claim (`OneTokenEach`), and an executor past its first reads remembers the row as its own
  claim left it (`Remembers`). With it every whole-row write that is accepted is by the
  present holder and maps to a step of `ScanJob` or to none, statement by statement; a
  write of anybody else changes nothing.

`ScanEvidenceProofs`
- `TypeCorrect`: `Spec => []TypeOK`; `ToolCancelStickyHolds`: `Spec => ToolCancelSticky`,
  whatever fails and whenever claims are lost, since every write of a record is an upsert
  that keeps a cancellation (`RecordWrites`).
- Under `Reliable` (`~LateToken`, and of the fallible statements only reads and inserts of
  findings): `OneRunPerToolHolds`, `CompletedHasEvidenceHolds`, `CompletedKeptHolds`,
  `HolderEvidenceSafeHolds`. The hypothesis is the constants of `resume`; each half is
  needed, as the observations on `LateToken` and on failing ownership reads show.
- The properties speak of the tables alone. `EInv` relates them to what the lease holder
  does (`Progress`): the tools it keeps have findings; a tool it is to reset is not recorded
  as completed; a tool it has reset or found untouched has no findings until its own
  insert, and its own only afterwards; between its start and its record a tool is
  neither unrecorded nor completed. Executors that lost their lease may be anywhere, and
  `Progress` says nothing of them: that they write nothing follows from the tokens
  (`OneTokenEach`, `SlotMemory`), which are what makes the fence's copy of the row the
  holder's.

`ToolProofs`, admission
- `LimitsHold`: `Spec => []WithinLimits`; `WakeupsKept`: `Spec => []NoLostWakeup`;
  `AccountsBalance`: `Spec => []Accounting`.
- For the first two the inductive invariant is `IInv == Shape /\ WithinLimits /\ NoLostWakeup`,
  where `Shape` types the counters as integers; they do not need to know that the counters
  are right.
- `Accounting` says that each counter is the cardinality of, or a sum over, the running
  tools that take from it. `Ledger` makes it inductive: the running tools are finitely
  many, and every one of them took what it will give back. A sum is a fold that
  takes its elements in an order of its own; that it splits off *any* element
  (by a smallest counterexample) is what lets a tool other than the last one
  end. Nothing is assumed of the number of tools: only finitely many run at a time.
- The argument for wake-ups: a waiter's test only turns from "does not fit" to "fits"
  when something of its scan or pool is released, and every release renumbers the
  channel of that pool; an admission only makes fitting harder, in the same pool or
  another. It needs that a scan's slots are only changed by tools of the same pool.
- `AdmissionTypeHolds`: `Spec => []TypeOK`. That no counter goes below zero is not in the
  code's guards, since a release subtracts unconditionally: it follows from `Ledger`, a
  counter being a sum of demands (`TakenNat`).

`ToolProofs`, custom builds
- `BuildTypeHolds`, `VerdictHolds`, `BuildCancelHolds`: `BuildTypeOK`,
  `VerdictMatches`, `CancelKept`; `NeverRebuiltHolds`: `BuildSpec => NeverRebuilt`.
- The inductive invariant `BuildInv` says that the verdict a worker has counted and not
  yet written is true while the lease token is its own (`Agrees`), and that variants are
  cancelled only with their build. The verdict stays true because no action takes a
  variant out of `completed`, and what takes one out of `failed` (a retry) has ended the
  lease first.

`ReleaseBuildProofs`
- `EndedByOwnerHolds`: `Spec => EndedByOwner`, from `LeaseInvariant`:
  `Spec => []LeaseInv`.
- `LeaseInv` relates a build's row to what a worker remembers of it: a worker that read
  a version and is about to write under it holds the lease token the row had at that
  version, and a row's version only grows when its token changes (`Undisturbed`,
  `Checked`). So a write that finds the version it read finds its own token, which is
  why comparing versions fences a worker whose lease was taken over between its check
  and its write. `EndedByOwner` alone is not inductive, since it says nothing of versions
  read earlier.
- `CompletedHasPlanHolds`, `DependenciesFirstHolds`, `OneLiveBuildHolds`,
  `ApprovableIsEvidentHolds`: invariants, all from `BuildInvariant`: `Spec => []BuildInv`.
- A worker decides on steps it read in an earlier transaction. `MemorySound` says what of
  its reading is still true whoever has the build now: the step it works on is its row or
  an older version of it, and the steps that one needs are completed (`PlanSound`), for no
  action takes a step out of `completed`; a cancellation it has seen is still there
  (`BuildSound`). `OneLiveBuild` is about attempts that different actors make and end:
  `Attempts` says that one passed by a later attempt, by a pending retry or by a blocked
  candidate is dead and has used the key that would block the candidate again.
- `ReleaseTypeHolds`: `Spec => []TypeOK`. `BuildInv` gives the kinds of the fields, `Bounded`
  their ranges: a lease and a worker are those of a build that exists and of a token that was
  given out (`LeasesFollow`, `Remains`), and no step has more attempts than the budget,
  although a step's retry is decided by a worker that may have lost the build (`InBudget`).

`LeasedJobsProofs`
- `TypeHolds`, `CancelHolds`, `BudgetHolds`: `TypeOK`, `CancelHonoured`,
  `GivenUpAtBudget`; `SettledByHolderHolds`: `Spec => SettledByHolder`.
- The inductive invariant `JobInv` types the row and every worker's memory, says that
  a ready discovery has an attempt left (its claim does not look), that a cancelled one
  is leased or over, that the holder remembers the attempt it is in, and that a registry
  worker gives up only in the last one.

`FixJobsProofs`
- `FencedHolds`: `Spec => Fenced`; `OneRunPerSessionHolds` and `OneActiveHolds`:
  `OneRunPerSession` and `OneActivePerBranch` are invariants.
- A result, a resume and a cancellation compare nothing but the revision they read.
  `FixInv` is what makes that enough: tables, requests and memories are typed, and a
  worker that still holds the newest revision of its job still has the claim, of an
  active job (`Sound`). The step lemmas show that a row's revision only grows and that
  a row with the same revision is the same row (`Later`), so a write that is accepted
  finds the claim it started from.
- `OneActivePerBranch` is not inductive: it speaks of sharing a workspace as well as a
  branch, and a workspace is written into a row, into a session and into a worker's
  memory by different steps. `Homes` says that every workspace ever made belongs to one
  session and never leaves it; with it, jobs that share a workspace share a branch
  (`SharesBranch`), and only a claim, which looks at the branch, makes a job active
  (`Calm`, `Exclusive`).
- `FollowsSuccessHolds`, `CheckoutSafeHolds`, `EngineKeepsCheckoutHolds`: invariants.
- `FollowsSuccess` compares a run with its predecessor, which a cancellation can reach
  between the check and the insertion. `Lineage` says that a session has at most one
  unsettled job (`OneUnsettled`), that what comes after a settled session stays away from it
  (`SessionsOver`), and that requests and workers remember the session of the job they
  name; then a predecessor that was checked is settled, and a settled one is not cancelled.
- `CheckoutSafe` is about what is removed; `NeededThere` about what is still needed: the
  workspace of a job that can run, of an open session, of a pending child scan and of a worker
  about to record it is on disk. What a release or a hand-off removes belongs, by `Homes`,
  to one session, whose jobs, scans and session row no longer need it. Of a clean-up whose transaction
  fails to commit the workspace is `lost`, and the row that still names it is one
  of a cancelled job.
- `EngineKeepsCheckout` adds where an engine is: `EngineIn` says that a worker in its
  engine whose claim is the newest works in its job's workspace, and nobody is given that
  claim's clean-up before the worker acknowledges.
- `FixTypeHolds`: `Spec => []TypeOK`, from `Ranged`, which adds ranges to all of the above:
  the tables are within their bounds and a job's run is a planned one (`RowsBounded`), a child
  scan reads a workspace of a session that exists (`ScansBounded`), and a worker has a
  workspace from the start of its engine on (`HeldBounded`), which needs `EngineIn`.

`ScanPublicationProofs`
- `GateCurrentHolds`: `Spec => []GateCurrent`; `RevisionMovesHolds`:
  `Spec => RevisionMoves`; `CompletesWholeHolds`: `Spec => CompletesWhole`;
  `OnlyContentionHolds`: `Spec => []OnlyContention`.
- `GateCurrent` speaks of the stored gate, which is written from memory, by a request
  that took its snapshot any number of steps earlier or by an executor that may have
  lost its lease since. `GateInv` therefore says the same of every snapshot there is:
  one that carries the present revision has the view of the present findings, in the
  gate, in the reader and in every executor. It is kept because a step that changes the
  findings moves the revision by one and no snapshot is ahead of the row (`RowSteps`);
  `RevisionMoves`, a theorem of its own, is that fact about the steps.
- `CompletesWhole` speaks of one step, whose guard reads the lease and the revision and
  trusts memory for the rest. `StageInv` says what an executor has made of the findings
  by its station, as long as it owns the lease: inserted, then all stored, then the
  policy captured, then clustered, and the count of a snapshot that is current. It
  survives the steps of the others because at most one executor owns (`OneOwner`) and
  nobody who does not can undo a stage (`FrameKeeps`).
- `OnlyContention` needs the tries of an executor to be paid for: `TriesInv` says they
  are at most the changes that landed, and one more only while its snapshot is current.
- `ProjectionCurrentHolds`: `Spec => []ProjectionCurrent`, from `FlagInv` and `ShownInv`.
  `FlagInv`: a stored finding is hidden exactly for the reasons in force, unless the
  last change of the rule missed the scan, and nothing is flagged before it is stored.
  `ShownInv`: the primary is stored and shows the cluster's open evidence unless a
  triage reopened the cluster (`Stood`), is classified by the policy that was captured
  (`Classed`), and what an executor remembers of both is true at its station while it owns
  the lease. Triage moves the whole cluster at once, a change of the rule chooses the primary again,
  and the assessment projects what the rule already made; each keeps the two together.
- `PublicationTypeHolds`: `Spec => []TypeOK`. That no executor takes more than
  `PublishTries` snapshots is in its type, and needs that none has a try before its first
  and one left whenever it turns to another (`Tried`); that an assessment is of a stored
  finding is taken from `ShownInv`.
- That finitely many findings have a most severe one (`SeverestExists`) is a lemma, so
  nothing is assumed of `Members` but that they are finitely many.

`RolloutProofs`
- `DeployedInOrderHolds`: `Spec => []DeployedInOrder`; `EndsAsDeployedHolds`:
  `Spec => []EndsAsDeployed`. The first rests on `OrderInv`, the second on
  `OrderInv /\ EndInv /\ Orders` (`Orders` types `assigned`).
- The calls that deploy are fenced by nothing, so what a controller goes by must be true
  whoever has replaced it. `Placed`: in its copy, the cohorts before the one it works on
  have arrived. `Faithful`: what it saw completed or rolled back still is, and a row it
  trusts is current in the versions it will compare. The state of a rollout only moves
  forward past its canary (`Past`): a rollout that passed it is never resumed before it,
  since a completed canary must not be written back to healthy. `EndsInRows`: a final move
  was decided on a copy in which every cohort had arrived, and arrived cohorts stay.
- That there is a first cohort that has not arrived is again the well-foundedness of `<`.
- `EndInv` is about the calls in flight. As long as no replaced controller has made one
  (`~late`), only the owner calls the runtime, but the others can still write a row whose
  version they know, which is enough to announce a cohort that the owner is about to
  deploy again. Hence `Standing`, a cohort whose row was accepted is deployed and
  announced so, needs: `Ready`, the same of a cohort whose acceptance is still to be
  written, by whoever; `Alone`, a cohort the owner does not see as being restored is
  neither restored nor waited for by a controller that rolls back; `Passes`, what
  was read as being restored is restored still, and a pass's lifecycle calls reach only
  cohorts it has not read so. That the control files of a
  completed rollout say resumed is decided in the last pass: `Swept`, those its calls
  have passed are resumed, and its move to completed comes after them. `Over`: after
  the last move the claim's owner makes no call.

- `RolloutTypeHolds`: `Spec => []RolloutTypeOK`. `OrderInv` and `Orders` type all but the
  plan, the boundary and the budgets, which `Frame` adds.

Only model-checked: liveness (fairness and `ENABLED` are beyond these provers). Every invariant
and every action property of a passing run is the conclusion of a theorem.

## 5. Plan

Done: the scan queue, its evidence and its admission; fix jobs; release builds; the
workers' queues; custom builds; publication; rollouts. Next:

1. `ScanEvents`: sequence allocation under the row lock, fenced appends, output limit,
   resumable stream; abstract specification: a client sees a gap-free prefix.
2. `Sessions`: refresh rotation and MFA steps; `Schedules`: due times and replicas.

Each with two or three actors, two items and the least attempts that make a retry
follow a loss; each with a type invariant and an ownership or at-most-once invariant
as its first theorem.
