# Verification development for 烽眸智鉴 (Fengmou backend)

TLA+ models, TLC runs and TLAPS proofs for the backend under `src/backend/app`: a FastAPI
service that takes construction-site evidence (video), lets an analyzer judge it against a
design baseline or the frozen rules of a work order, has a person review the result, and
seals what was approved as report files, a ZIP archive and a hash-chained proof ledger.
Beside it: the two-request import of engineering designs, and the command-line tools that
evaluate a model on development data and guard held-out data.

`PROJECT.json` maps each definition to the lines it translates and lists every run, mutant,
hazard, finding and theorem. This file says how the parts fit together.

## 1. The system

### Components and their state

| Component | Source | State | Operations |
|---|---|---|---|
| Verification queue and leases | `services/analysis.py` | `verification_jobs`, `verification_job_leases`, append-only `verification_attempts` and `verification_attempt_outcomes`, audit rows | create lease, claim, renew, complete, fail, report a fenced write, reap, startup recovery, integrity scans |
| Worker process | `worker.py`, startup of `main.py` | one claim, one heartbeat thread, a `lease_lost` event | start (recover), loop: reap, poll, run; stop, crash |
| Verification API | `api/router.py` | none of its own | upload, retry, review, many reads |
| Sealing saga | `services/sealing.py` | `seal_operations`, staging directory, report/archive directories, `proof-ledger.jsonl`, lock files | request, stage, publish, append to ledger, complete, resume, recover, set aside |
| Proof archive | `services/proof.py` | none (ledger and ZIP are the saga's) | hash chain, Merkle root, archive verification |
| Findings and remediation | `services/remediation.py` | `finding_cases`, `finding_case_commands`, `remediation_attempts` | materialise, triage, start, attempt, bind, review, dismiss, finalise, scan |
| Work orders | `services/work_orders.py`, `api/work_order_routes.py` | `work_orders`, `evidence_captures`, `compliance_evaluations` | create, assign, upload, transitions of the analysis |
| GeoPackage staging and import | `services/gpkg_staging.py`, `gpkg_import.py` | staging directories with metadata, quota lock, `design_packages`, `engineering_objects`, stored JSON packages | preview, confirm, purge, idempotent import, JSON import |
| Holdout registry | `evaluation/registry.py` | one SQLite file: attempts, events, incident authorisations | reserve, expose, finalise, mark incident, get, list |
| Evaluation executor, bundles | `evaluation/executor.py`, `bundle.py`, ... | sandbox, staging and published directories, a publication lock | verify, copy, run a supervised process group, score, publish |
| Pure parts | `compliance.py`, `spatial.py`, `reporting.py`, `evaluation/metrics.py`, `gpkg_normalize.py`, ... | none | functions of their inputs |
| Read-only parts | `observability.py`, `metrics.py` | none | aggregates |
| Analyzers | `services/analyzers/*`, `reference_analyzer.py` | none | one call per attempt |
| Schema, configuration, auth, frontend | `schema.py`, `migrations/`, `config.py`, `auth.py`, `frontend/` | none the rest depends on while running | |

### How they interact

The components of the service share one database (SQLite, or PostgreSQL with several
workers) and one file tree. There are no messages: a worker polls, an API handler commits,
and both see what the other did the next time they read. What keeps them apart is

* conditional updates (`UPDATE ... WHERE status = ... AND generation = ...`) whose row count
  decides the branch, on jobs, leases, cases and attempts; work orders have none;
* the fencing token of a lease: `generation`;
* lock files: one for each seal operation (non-blocking), one for the ledger (blocking), one
  for the staging quota (blocking), one for each staged upload (non-blocking), one for each
  publication directory (blocking);
* unique constraints: one outcome per attempt, one seal operation per job, one command per
  idempotency key, one design package per digest and source, unique object codes.

A review of a job calls the saga in the request and decides on the finding cases of the job;
the last commit of the saga moves those cases; an upload may be the re-verification of a
case or the evidence of a work order; the completion of an analysis stores findings as cases
and moves the work order. The start of the service calls the saga for each unfinished
operation; the worker loop calls recovery once and then the reaper before each poll. The
registry and the development runner are processes of their own that share files only.

### What is hard

Workers that die or are suspended between a claim and a terminal write; a clock reading
taken before and used after another process's commit; outcomes that several observers want
to write; a budget compared in four places. A saga over a database and a file system without
a common transaction, interrupted anywhere and resumed by sessions that hold old copies of
the row; a ledger file that is replaced whole. A review that dismisses cases while others
are commanded. Routes that read an order, await an upload and write back what they decided
before. Requests that purge, claim and import in one directory with locks that are files
another may unlink. A registry whose callers may die after any commit. A predictor that
forks, leaves its process group and goes on writing. `PROJECT.json` lists each at its line
under "hazards".

### What makes each component correct

* Queue: an attempt number is used once; a worker that lost its lease writes nothing; each
  attempt ends in one outcome; a reviewed result is that of the last attempt; a queued job
  can be claimed and a running one can be found by the reaper; a dead letter is final; every
  job settles.
* Saga: approved means completely sealed; one ledger row per archive; rows never move;
  completed is final; an interruption is repaired and needs no person unless a read error was
  taken for damage; every sealing job is approved or set aside.
* Remediation: a case closes only by the sealed re-verification bound to its active attempt;
  a version names one change; no approval passes over an untriaged finding; what a report
  froze is still true when it is sealed.
* Work orders: a status shows the verdict of a stored evaluation; a compliant verdict was
  earned under the frozen rules near the frozen geometry; a refusal has a rival; uploaded
  evidence is decided.
* Staging: a package holds the bytes and objects that were previewed, once; the quota holds
  but for three named ways round it; nothing previewed is lost by a refusal; what is left
  behind is named.
* Registry: a holdout is exposed once and handed out once, whatever crashes and retries.
* Runner: what is published is what was scored, of a process group that was silent, with the
  declared files, as far as an edit that is put back can be noticed; a destination is written once; the answer tells whether it was.
* Rules: headers, reference systems, imports, splits and counts agree with their definitions.

## 2. Modules

| Part | Abstract | Detailed | Proofs | Constants for TLC |
|---|---|---|---|---|
| Queue | `VerificationLifecycle` | `VerificationLease` | `VerificationLeaseProofs` | `MCVerificationLease` |
| Saga | | `SealingSaga` | `SealingSagaProofs` | `MCSealingSaga` |
| Finding cases | `FindingLifecycle` | `Remediation` | `RemediationProofs` | `MCRemediation` |
| Work orders | | `WorkOrders` over `Compliance` | `WorkOrdersProofs` | `MCWorkOrders` |
| Import | | `DesignImport` over `GpkgPreflight`, `DesignPackage` | `DesignImportProofs` | `MCDesignImport` |
| Registry | `HoldoutPromise` | `HoldoutRegistry` | `HoldoutRegistryProofs` | `MCHoldoutRegistry` |
| Runner | | `DevelopmentRun` | `DevelopmentRunProofs` | |
| Rules | `Rules` | `EvaluationRules`, `GpkgPreflight`, `DesignPackage` | `RulesProofs` | `MCRules` |

The abstract specifications of the queue, the cases and the registry say what a part promises
with no requests, versions or files. They are there to be implemented and translate no code of
their own, so the map has no lines for them; `Rules` has none either, it states what the pure
operators promise.

### `VerificationLease`

The queue in detail. One action is one database transaction.

| Model | Code |
|---|---|
| `status`, `result`, `lease`, `attempts`, `outcomes` | the tables above; `result` is the generation whose result is in `result_json` |
| `retryable` | `payload.retryable` of the latest `analysis_failed` audit, which the retry handler reads |
| `run[w]` | the locals of `run_verification_job` in worker `w`: phase, claim, verdict, `lease_lost` |
| `recovery[w]` | `candidates` and `legacy_running_ids` of the startup recovery |
| `retrying[r]` | a retry request between its checks and its update |
| `Claim`, `Renew`/`LoseLease`, `FinishAnalysis`, `CommitSuccess`, `CommitFailure`, `WriteFenced`, `ReportLoss` | `claim_verification_job`, the heartbeat thread, `run_verification_job`, `_complete_...`, `_fail_...`, their fenced exits, `_record_fenced_write` |
| `Reap` | one iteration of `reap_expired_verification_jobs` |
| `StartWorker`, `SeedLeases`, `RecoverLegacy/Lapsed/Other`, `EnterLoop` | `recover_pending_verification_jobs`, split at its commits |
| `Retry` / `RetryCheck`, `RetryWrite` | `retry_verification` on SQLite / on PostgreSQL |
| `CreateVerification` | `create_verification` |

Abstractions. *Time* is relative: `ttl` is the expiry minus the database clock. A transaction
may use a clock reading up to `MaxLag` old, since it reads the clock, then rows, then updates.
What a transaction reads before its conditional update matters only through values the update
does not test again, which is why one action is enough. *SQLite* takes its write lock with the
first insert, so a retry is one action there (`AtomicRetry`); on *PostgreSQL* the checks and
the update are two steps. *Worker names* are a function, so two processes may share one
`--worker-id`. The *analyzer* is its verdict. Audits other than the one that is read back,
progress, messages and digests are left out. The heartbeat thread is joined before a terminal
write; the model assumes the join (which has a timeout) succeeds. SQLite's lock file allows
one external worker only: two workers with `AtomicRetry` cover the background tasks of the
inline mode and are a superset of the rest.

### `SealingSaga`

The saga. One action is one commit or one file operation.

| Model | Code |
|---|---|
| `job`, `oper`, `rows` | job status, `seal_operations`, the report/proof/audit rows of the last commit |
| `staged`, `published`, `ledger` | the two places a file can be, and the ledger file |
| `changed` | the evidence file no longer has its digest; the rows the report was frozen from (baseline, evidence, review, result) are no longer what it says |
| `misread` | a history variable: jobs of which a read error was taken for damage |
| `sess[s]` | one request or startup recovery: its program counter, the copy of the operation in its identity map (`snap`), the ledger rows it read (`view`) |
| `Approve`, `Reject`, `RepeatApproval` | `review_verification` |
| `StartRecovery` | `recover_seal_operations` |
| `Lock` ... `CheckStopped` | the blocks of `resume_seal_operation` in order |
| `FoundCompleted`, `FoundInconsistent`, `RecordFailure`, `PersistManualAttention` | its two exception handlers |
| `StageRefused`, `StageMismatch` | `_validate_source_integrity` and `_validate_frozen_snapshot`: changed evidence is an ordinary failure, a changed row is damage |
| `IoError`, `ReadError`, `Crash`, `LoseStaging`, `ChangeSource`, the second disjunct of `CompleteCommit` | the environment: an exception in any block, a read that fails where the code makes damage of it, a death between any two steps, lost scratch data, a changed source, a commit whose acknowledgement is lost |

An `OSError` has two fates. In hashing, writing or moving a file it is an ordinary failure and
the state is kept (`IoError`). Where the storage directories are looked at
(`_validate_storage_layout`), the ledger is read (`_publish_ledger`,
`_validate_published_operation`) or the archive is verified, the code makes a
`SealIntegrityError` of it, and `manual_attention` is persisted over whatever the row says,
`completed` included (`ReadsForDamage`, `ReadError`); so it is when the same check of a commit
whose acknowledgement was lost fails. `Suspect(j)` names the jobs this happened to, and those
whose rows were rewritten.

SQLAlchemy's identity map with `expire_on_commit=False` is modelled, because the code depends
on it: a session works on the row it loaded and writes back the columns it changed, and reads
again only where the code passes `populate_existing` or opens a new session. Digests, Merkle
roots and the hash chain are abstracted to identity: a file or a row is the one the operation
made, or is missing.

### `Remediation`

Finding cases, composed with what the review handler, the upload handler and the saga do to
them.

| Model | Code |
|---|---|
| `case`, `attempts`, `commands`, `seal` | `finding_cases`, `remediation_attempts`, `finding_case_commands`, `seal_operations` with the frozen context of the report |
| `req[r]` | one request: the command, the case rows its session has loaded (`seen`) |
| `changes` | a ghost count of committed changes per case, for the version property |
| `ReceiveTriage/Start/Attempt`, `WriteCommand`, `WriteAttempt` | `triage_case`, `start_remediation`, `create_remediation_attempt`: the checks and the compare-and-set |
| `ReceiveUpload`, `WriteBinding` | `create_verification` of a re-verification around `bind_attempt_to_verification` |
| `ReceiveReview`, `TakeJob`, `CommitApproval`, `CommitRejection` | `review_verification` with `prepare_remediation_review` and `dismiss_cases_for_rejected_job` |
| `Stage`, `Complete` | the context check before staging, and `finalize_remediation_after_seal` |
| `IsIntact`, `IsClosedProperly` | `validate_remediation_graph`, the scan of readiness |
| `FinishAnalysis`, `FailAnalysis`, `Retry`, `Submit` | what `VerificationLifecycle` says of the job; materialisation of the cases |

A review writes the columns its session loaded after it took the job's row, so what commits
between the two is overwritten: that is a step of its own here. A session whose compare-and-set
succeeds has read the current row, so the reads of a command are one step.

### `WorkOrders` and `Compliance`

`Compliance` holds the location check (`spatial.py`) and the rule engine (`compliance.py`) as
operators; optional values are sets of at most one element, and positions are metres on one
line. `WorkOrders` has the sessions: an assignment, an upload and a completion each read the
order, and later write its status by primary key alone.

| Model | Code |
|---|---|
| `order`, `evaluation` | `work_orders` with its frozen rules, geometry and policy; `compliance_evaluations` |
| `job[j]` | upload session, capture and verification job of one upload |
| `Create`, `BeginAssign`/`CommitAssign` | `create_work_order`, `assign_project_work_order` |
| `BeginUpload`, `CommitUpload`, `RefuseUpload` | `create_work_order_verification` around its await |
| `Evaluate`, `BeginCompletion`, `CommitCompletion`, `RefuseCompletion`, `RecordRefusal`, `AnalysisFails` | the work-order part of `_complete_verification_job` and its failure path |

A snapshot states its rules under `expected`, under `fields`, or nowhere: then the engine takes
every entry of the frozen snapshot for a rule, those that freezing added included (`RulesMet`).
Building the baseline writes the object's count and specification into a nested `measurements`
that the snapshot shares, over what it said of the same field (`FrozenRules`).

Claims, leases and retries are left to `VerificationLease`. No operation of the code moves an
order to `approved`, `remediating` or `closed`, although the table of transitions allows it.
The assignee, the haversine distance and the UTM projection are not modelled.

### `DesignImport`, `GpkgPreflight`, `DesignPackage`

`GpkgPreflight` is the read-only preflight and normalisation of a standard GeoPackage,
`DesignPackage` the JSON package and the legacy derivative: pure operators from a record of
what the file is to the set of issues and objects. `DesignImport` composes them with the two
requests.

| Model | Code |
|---|---|
| `upload[u]`, `files`, `bytes` | a preview request, its `.partial`/metadata and its `.gpkg` under the staging id |
| `confirm[c]` | a confirm request with its snapshot and uncommitted row |
| `named`, `oldLocks` | which inode a lock file's name leads to, which are older than the TTL |
| `slipped`, `litter` | histories: how an upload passed a quota that was full (`"lock"`, `"scan"`, `"read"`), and the staging ids of which a failed unlink left a file |
| `packages`, `json`, `jsonFiles` | `design_packages` with their objects, JSON requests, stored JSON files |
| `OpenQuota` ... `Inspect` | `stage_upload` and the preview route |
| `VerifyToken` ... `Commit` | `confirm`: token, claim, snapshot, digest, import, clean-up, commit |
| `PurgeStaged`, `PurgeLock`, `PurgeSnapshot` | `purge_expired`, entry by entry and without a lock |
| `ReceiveJson`, `ImportJson`, `RefuseJson` | the `import-json` route: the file is stored, then its rows are committed or the file removed |
| `CrashUpload`, `CrashConfirm`, `CrashJson`, `CommitFails`, `WriteFails`, `SnapshotFails`, `LeavesLitter`, `Expire`, `ExpireLock`, `Tamper` | the environment |

Requests run in threads and processes, and each step is one that another request may follow. A
lock is an inode, because the code unlinks lock files: who opened the old inode and who opens
the name again do not exclude each other. A request is taken to be shorter than the TTL; a
token outlives the file's TTL by the length of the preview. Tampering keeps the size of the
file. The budget of the purge is a matter of which entries one purge reaches, so it is left to
nondeterminism. A partial file or a description left by a crash is not purged by the code and
stays in the model too.

The quota counts what a scan of the directory meets before it has looked at `MaxScan` entries
(`DEFAULT_MAX_SCAN_ENTRIES`, 256), whatever they are and whosever: `ScanMeets` allows every
selection such a scan can end with, `Entries` being the actor's files and locks and `MaxOthers`
those of others. An entry that cannot be read counts as nothing. `Counts` is both, and `slipped`
remembers when one of them let an upload through that the full count would have refused.

A snapshot that cannot be written or read again is left behind, because the caller has no name
for it yet (`SnapshotFails`, `gpkg_staging.py:654`, `725`, `761`). Every `unlink` of a clean-up
swallows its error (`LeavesLitter`). The JSON route stores its file first and may die before
the commit (`CrashJson`). The look-up of an import is three queries and one step (`LookUp`):
packages are only added, so a request passed by another between two of them ends as one that
read all three at one moment.

A whitelisted layer that fails the preflight beside an accepted one is left out of the import,
which the code records as `completed`; only `layers_json` tells (`LayerSummary`).

### `HoldoutRegistry`

Each call of `evaluation/registry.py` is a transaction under the write lock, so each is one
action: `Reserve`, `CommitExposure`, `Finalize`, `MarkIncident`, `Inspect`; `CreateFile` is the
crash between making the file and its tables, `ChangeMode` the permission check, `Release` the
caller that hands out the inputs after it got its receipt. A refused call rolls back and is a
stutter. A capability id is treated as its run's. Copying or restoring the file from outside
is not modelled. `KeepsPromise` is the refinement of `HoldoutPromise`, by the latest attempt
on each holdout.

### `DevelopmentRun`

`executor.py` and the publication of `bundle.py`: `pc[r]` walks through the loading of the
evaluator (`Import`), the checks of the plan (`VerifyBefore`), the cases (`LoadCases`), the
copies (`CopySupervisor`, `CopyAssets`, `Copy`), `Start`, the wait with its time limit, SIGTERM and
SIGKILL of the group (`Terminate`, `Kill`), the checks again (`VerifyAgain`), one snapshot of
the predictions, scoring, staging, `flock`, the look, `renameat2(NOREPLACE)`, `fsync` and the
two clean-ups. Beside it: edits of the files, a foreign directory at the destination, a
predictor that writes, forks, leaves the group (`Escape`) and ends when it likes, disk errors
at every call, crashes. A process id taken over by another process group is not modelled; a
log above its limit is one of the ways `TakeLogs` fails.

Each step that goes on with the bytes of files says which (`Uses`), so that `used[r]` is what a
run took from a file while it was not the declared one. Four reads compare no digest of the plan:
the modules of the evaluator, which were loaded before they were hashed; the manifest, opened by
its path once more after it was verified (`executor.py:523`), and with it the assets, which are
checked against that manifest; and `supervisor.py`, read again and executed (`executor.py:584`).
An edit of one of these that is put back before the last look is not noticed; `restored` is the
history of what was put back, and `PublishedEvidenceIsTrue` allows these files, only after such
an edit, and no others.

### `EvaluationRules`, `Rules`, `MCRules`

`EvaluationRules` has split isolation by union-find over several group keys, scorable
predictions and the counts behind the metrics. `Rules` has one state per input, a header, a
file, a package, a derivative, a dataset or a score, which nothing changes; its invariants
compare the operators of `GpkgPreflight`, `DesignPackage` and `EvaluationRules` with reference
definitions (the standard's envelope table, exchange of keys, a row for each object and a reason
for each row that is missing, paths of shared groups, counting by class). The sets of inputs are constants: `RulesAssumption` says no
more of them than their shape (a table name and a row number are keys, a null is an empty set,
tables are finite), and `MCRules` gives bounded ones.

## 3. Runs

| Run | Instance | Shows |
|---|---|---|
| `lease_safety` | 1 job, uploaded or found running after an upgrade; 2 workers; 3 attempts; term 2, lag 1; 2 crashes; failing heartbeats; atomic retries; fairness | lease and history agree, each attempt has one outcome, no job falls out of sight, a dead letter is final, the abstract life is implemented, no job is stuck (243 026 states) |
| `lease_postgres` | 2 workers under one name, 2 non-atomic retries, 3 crashes | the token alone tells claims apart; a fenced write never conflicts; a review shows the last attempt's result (199 619) |
| `seal_crash_restart` | 1 job, 1 session, 4 faults (crashes, failed calls, misread files, lost scratch files), fairness | an interruption leaves no mark and completed is final unless a read error was taken for damage, every sealing job is settled (2 474) |
| `seal_two_jobs` | 2 jobs, 2 sessions, 2 faults, sources and scratch files changed from outside | approved is sealed, the ledger is sound and only grows (3.8 million) |
| `remediation_races` | 2 jobs, 2 cases (the second a demonstration, found in the re-verification of the first), 2 requests, 4 keys, 2 analyses, 2 attempts, row locks only | every case is intact for readiness, a frozen context holds, no untriaged finding is approved, versions name one change, the abstract life is implemented (360 392) |
| `work_orders` | 1 order, 3 designs (nested measurements that the attributes overrule; rules under `fields`, location ignored; rules under neither key), 2 uploads, 2 assignments, row locks only, fairness | verdicts are earned, refusals have rivals, a deviation is overwritten by open sessions only, uploaded evidence is decided (140 565) |
| `design_import` | 2 uploads, 2 confirms, 1 JSON import, 2 codes, quota of 1 file and 2 bytes, scans of 6 entries beside 1 of another actor, 1 fault | packages are what was shown, once; the quota but for the three named ways; nothing lost, what is left is named (1 163 990) |
| `holdout` | 1 dataset (2 holdouts), 3 attempts, runs and approvals, 2 brokers, 2 generations | exposed and handed out once, the log tells the rows, history is kept, the promise is implemented |
| `development_run` | 1 full run and 1 rival at the same destination, 1 edit, of the manifest or the supervisor, that may be put back, fairness | published evidence is true, the answer matches the disk, the destination is written once, every run ends (502 592) |
| `rules` | all 256 flag bytes at 8 lengths; bounded files, packages, derivatives, datasets, scores | the rules agree with their reference definitions (74 107) |
| `seal_stale_session` | 1 job, 2 sessions, no fault | **violated**: see findings |
| `gpkg_claim` | 1 upload, 3 confirms, no fault | **violated** |

Why the bounds are enough. *Queue*: a takeover needs two claims, so two workers; with three
attempts there is a first, a middle and a last one, so every comparison with the budget is met
on both sides. A term of two ticks and a lag of one let a reading be older than an expiry and
a renewal newer than it. Two crashes kill the first holder and its successor. Jobs meet only
in the worker that is busy with one; the theorems hold for any number. *Saga*: two sessions
meet on the operation or on the ledger; four faults interrupt an attempt, its resumption and
the resumption of that. *Cases*: the second case comes from the re-verification of the first,
which is the only way two cases share a job; two requests race on one row or on two; four
keys are a triage, a start and two attempts of one case. *Orders*: orders share nothing, so one; two
uploads and two clerks are one of each kind that began before and one that began after.
*Import*: two previews share the quota, two confirms share an upload or a digest; the third
that a claim file needs is in `gpkg_claim`. One fault keeps the run within minutes; a second
fault finds nothing the first left unless the first was a crash, and a crashed request never
acts again. The quota of one is met by the second upload, and the file of two bytes leaves no room
for another; six entries are the most at which a scan can stop short of a pending upload here
(at seven `"scan"` is unreachable). *Registry*: three attempts make a chain of two retries, the longest that two
generations allow. *Runner*: the rival contributes only what it does at the destination; of the four
files read without a digest the manifest and the supervisor stand for the kinds that change
the cases and the code. *Cases* again: a binding that comes too late is executed and rolled back;
a second one that succeeded would need a third job and is excluded by the theorems.
`OneWriter = FALSE` admits all interleavings of `TRUE` and more, so what holds on row locks
holds on SQLite's single writer.

Deadlock checking is off where the system rests when the work is done and the faults are
spent; it is on in `holdout`, `development_run` and `rules`.

## 4. Findings

Each is a run that TLC refutes, against a sentence of the repository.

1. `seal_stale_session`: `resume_seal_operation` takes the lock and then `db.get`s an
   operation that its session already holds, so it works on the copy from before the lock. A
   second approval that loaded `requested` while the first request was sealing runs the whole
   saga again over the completed operation, writes earlier states back, fails at the job's
   conditional update and leaves `manual_attention` for an approved job. Files, ledger and
   rows stay right (`seal_two_jobs`, and the theorems).
2. `gpkg_claim`: a confirm that finds the claim lock busy unlinks the lock file on its way
   out, so the next confirm locks a new file and claims the upload beside the first, although
   the module promises an exclusive claim. The import still happens once (`design_import`).

Disagreements that the models reach and that a property excepts by name, or that need no run
to see; most are hazards in `PROJECT.json`, with their lines:

* a read error of the directories, the ledger or the archive is persisted as `manual_attention`,
  also over a completed operation that is only looked at again, where the delivery document
  (`docs/STAGE2_ALPHA7_DELIVERY.md:26-27`) keeps the last successful state after a transient I/O
  failure and retries (`CompletedIsFinal` and `InterruptionLeavesNoMark` except `Suspect` jobs);
* evidence whose digest conflicts in the middle of staging is a transient failure, resumed
  for ever, where the delivery document says `manual_attention`;
* recovery commits the seeded lease rows before it requeues the jobs; if it dies in between,
  no later recovery or reaper matches such a job (`NoJobIsStuck` excepts it);
* a heartbeat that fails on the database is taken for a lost lease, so a `lease_lost` outcome
  can stand beside a live lease (`OutcomesAgree` allows only that one);
* on PostgreSQL a retry tests only the status again, so a retry, a claim and a dead letter fit
  in between and the dead-lettered job is queued again (`DeadLetterIsFinal` and the refinement
  are stated for atomic retries);
* on PostgreSQL a rejection may overwrite a triage, and two changes of a dismissed case carry
  one version (`LiveVersionNamesOneChange`);
* two confirms with one package code are both imported;
* the quota of pending uploads is counted within a budget of directory entries that other actors'
  files use up too, what cannot be read is not counted, and the quota's lock file may be purged
  under its holder (`PendingWithinQuota` excepts the three by name);
* "失败不残留" (a failure leaves nothing behind, `docs/GPKG_IMPORT_CONTRACT.md:131`): a snapshot
  whose writing failed stays, so does what an `unlink` fails to remove, and the file of a JSON
  import that died before its commit (`StagingKeepsWhatItOwes` excepts these three);
* a GeoPackage of which a whitelisted layer was rejected is recorded as `completed` when another
  was accepted (`gpkg_preflight.py:803`, `gpkg_import.py:359`), where the JSON route refuses and
  the derivative says `partial` (`MissingRowsAreAccountedFor` asks only that the layer is named);
* a JSON package sent again under the same name can unlink the stored file of the first;
* a temporary directory that cannot be removed turns the answer of a published run into an
  I/O error (`AnswerMatchesTheDisk` excepts it);
* the manifest is verified and read again by its path, `supervisor.py` is hashed and read again
  before it is executed, and the evaluator is loaded before it is hashed; an edit in between that
  is put back is not noticed (`PublishedEvidenceIsTrue` excepts them, after such an edit);
* a retry authorised under an approval id that an attempt already carries can never be
  reserved.

## 5. Proofs

TLAPS proves the following for every value of the constants that meets the assumptions named
in the modules (`ConstantsAssumption` and its kin: budgets are positive, a lag is shorter than
a term, a value that stands for nothing is none of the others, requests are finitely many).
Beyond those three theorems of the queue are given `AtomicRetry`, and two of the saga `[]Apart`
(and one `~Meddling`); where these fail TLC shows that the properties do. Nothing in a proof
module is taken without proof.

| Theorem | Property of a run |
|---|---|
| `VerificationLeaseProofs`: `LeaseInvariant` | (the inductive `LeaseInv`) |
| `TypeCorrect` | `TypeOK` |
| `AttemptHistoryCorrect` | `AttemptHistoryMatchesLease` |
| `FencedWritesAreFirst` | `FencedWriteNeverConflicts` |
| `NoAttemptIsForgotten` | `UnsettledAttemptIsCurrent` |
| `ReviewedResultCorrect` | `ReviewedResultIsTheLastSuccess` |
| `DeadLettersAreFinal` | `DeadLetterIsFinal`, given `AtomicRetry` |
| `NoJobFallsOutOfSight` | `QueuedOrOwned`, given `AtomicRetry` |
| `OutcomesAlwaysAgree` | `OutcomesAgree` |
| `QueueImplementsLifecycle` | `ImplementsLifecycle`, given `AtomicRetry` |
| `SealingSagaProofs`: `SagaInvariant` | (the inductive `SagaInv`) |
| `LedgerSound`, `ApprovedAreSealed`, `LedgerGrows` | `LedgerIsSound`, `ApprovedIsSealed`, `LedgerOnlyGrows` |
| `SerialInvariant` | (the inductive `SerialInv`), given `[]Apart` |
| `CompletionIsFinal` | `CompletedIsFinal`, given `[]Apart` |
| `InterruptionsLeaveNoMark` | `InterruptionLeavesNoMark`, given `[]Apart` and `~Meddling` |
| `DesignImportProofs`: `ImportInvariant` | (the inductive `ImportInv`) |
| `ImportsAreWhatWasShown`, `ImportStaysWithinQuota`, `ImportKeepsWhatItOwes` | `PackagesAreWhatWasShown`, `PendingWithinQuota`, `StagingKeepsWhatItOwes` |
| `HoldoutRegistryProofs`: `RegistryInvariant` | (the inductive `RegistryInv`) |
| `HoldoutUsedOnce`, `AttemptsAccountedFor`, `RegistryHistoryKept` | `UsedOnce`, `EveryAttemptIsAccountedFor`, `HistoryIsKept` |
| `RegistryKeepsPromise` | `KeepsPromise`, the refinement of `HoldoutPromise` |
| `DevelopmentRunProofs`: `RunInvariant` | (the inductive `RunInv`) |
| `DestinationKept`, `PublishedEvidence`, `AnswerIsTrue` | `DestinationIsWrittenOnce`, `PublishedEvidenceIsTrue`, `AnswerMatchesTheDisk` |
| `WorkOrdersProofs`: `WorkInvariant` | (the inductive `WorkInv`) |
| `VerdictsEarned`, `RefusalsHaveRivals`, `DeviationsAreOverwrittenByOpenSessions` | `VerdictsAreEarned`, `RefusalNeedsARival`, `OnlyOpenSessionsOverwriteADeviation` |
| `RemediationProofs`: `RemediationInvariant` | (the inductive `RemediationInv`) |
| `CasesStaySound`, `SourcesAreDecided`, `VersionsNameChanges` | `CasesAreSound`, `ReviewedSourceIsDecided`, `LiveVersionNamesOneChange` |
| `RemediationImplementsLifecycle` | `ImplementsFindingLifecycle`, the refinement of `FindingLifecycle` |
| `RulesProofs`: `HeadersFitTheirEnvelopes`, `SystemsAreResolved` | `HeaderFitsItsEnvelope`, `ReferenceSystemsAreResolved` |
| `MissingRowsAreKnown`, `DatasetsAreIsolated`, `CasesCountOnce` | `MissingRowsAreAccountedFor`, `IsolationMeansNothingShared`, `EveryCaseCounts` |

The invariants the runs check are not inductive by themselves. Each strengthening was checked
by TLC before it was proved. What it adds, and why:

* **Queue.** `LeaseInv` ties a worker's local claim to the rows it wrote (`ClaimHasAttempt`,
  `CurrentClaimIsOpen`), keeps tokens apart and below the lease's (`TokensDiffer`,
  `CountersAgree`) and ties the columns of a lease to the status of its job (`LeaseFitsStatus`,
  `BudgetIsKept`). A fenced write is the first outcome of its attempt because nobody settles
  the attempt of the claim that is still in the lease; that holds because every observer that
  writes an outcome takes the lease away in the same transaction. The twenty actions fall into
  three classes: a claim, an upload, or a *calm* step, which adds no attempt, hands out no
  token and settles whatever lease it releases (`CalmStep`). Most conjuncts are proved over
  the classes. `OutcomeInv` adds what the outcomes need (`DeadIsNotRunning`, `OwnerHasAttempt`,
  `FencedIsOver`), and the refinement needs that a stored result is one under review
  (`ResultFits`). Without `AtomicRetry` those two theorems are false: the interleaving of a
  retry on PostgreSQL is in section 4.
* **Saga.** A session works on copies of rows that another session may have moved on.
  `SessionFits` says a copy may be late but never wrong: the row of the ledger it remembers is
  its own and the files it takes for published are. `LedgerLocked` says who may be between the
  reading and the replacing of the ledger. Neither the ledger nor the approvals need the lock on
  an operation; the conditional updates and the ledger's lock are enough. That what is completed
  stays so, and that interruptions leave no mark, needs more: sessions that both hold a copy of
  an operation undo each other's work even under that lock (`seal_stale_session`). So these are
  proved of the behaviours in which no two sessions are on one job at a time (`Apart`), for any
  number of jobs, sessions, crashes and retries; a single session per job is the special case
  `OneSession`. `SerialInv` says that the session that is on a job holds the row as the
  database has it, but for the ledger index it is about to write (`Follows`), that the state of
  a row tells its columns, its job and its audit rows (`RowTells`), and, unless files are meddled
  with, that nothing a session counted on is missing (`Repairable`). Read errors taken for damage are
  steps like any other; what they set aside is in `misread`, and nothing else is.
* **Import.** `ImportInv` says at each step of an upload which of its files and names exist
  (`Staged`), that a confirm carries nothing but what was shown (`Carried`), that a claim lock has
  its name while one who opened it has not left (`ClaimNamed`), that a JSON file has its package or
  a request that has not ended (`JsonFilesKept`), that the one request in the
  critical section of the quota still has the room it found there, as long as nothing slipped (`QuotaKept`), and that no two
  packages, and no rows about to become packages, share a digest or an object (`RowsApart`); the
  last holds because the insert looks at all rows in the transaction that adds them. The quota
  is a sum over all pending uploads. What holds of such a sum is proved by a minimal
  counterexample among the subsets, with the library's fact that the subsets of a finite set are
  well founded.
* **Rules.** The inputs do not change, so these are facts about operators. Files: an exchange of
  two keys is its own inverse, so it keeps apart what was apart, and each operator of the
  preflight is followed through it. Imports: rows, candidates and codes, or features and objects,
  are put in one-to-one correspondence, which needs that table names and row numbers are keys.
  Rows of a layer that was left out are those of the layers the summary does not call accepted
  (`OthersAreMissing`). Scores: a sum of counts by key counts everything once (`SumOfFibres`, by a smallest
  counterexample again), and the entries of the matrix are such counts. Datasets: a forest is
  `Rooted` in a function R that agrees with following the parents and is the only one that does;
  a union keeps that, because from a function that agrees with the new parents one is made that
  agrees with the old ones (`HangRooted`), so the argument needs neither ranks nor paths. A union
  parts nothing that was joined and crosses no label that its two cases share (`UnionJoins`);
  over the cases of a key and then over the keys this makes one root of each group (`KeyUnites`,
  `ComponentsUnite`), and, with the split as the label, nothing more than the groups say.
* **Registry.** `RegistryInv` says of each row which events it has (`IsHistory`), that only
  the latest attempt on a holdout is open, that each authorisation stands for the incident of
  one attempt, and which receipts are out. The refinement maps the latest attempt and the
  unused authorisation of a holdout to its phase.
* **Runner.** `RunInv` ties the program counter to what is staged, to the publish lock and to
  who wrote the destination, and lets two runs share nothing else. For the inputs it says which
  files a run may have taken in a changed form (`InputsFit`): those read without a digest, the
  assets only beside the manifest, and each of them, once its last look has passed, restored.
* **Orders.** `WorkInv` says what a session read is what the order still froze, that each
  stage of a job follows from the stored evaluation, and that a job whose completion is going
  to be refused has a `Rival`: another job's stored evaluation or an assignment. Steps only add
  evaluations and keep what is frozen (`Steady`), so both survive every step of the others.
* **Cases.** A command's copy of a case may be stale. `CommandFits` says that the versions of a
  decided case only grow, so that a case which still has the version read is the case read
  (`Winner`); an untriaged case has version 0, which no other status shares. `HoldingFits`
  says what a review has loaded: the case that waits for its job cannot move before it commits,
  and findings of a rejected job can only be triaged meanwhile, which is why versions may
  repeat on a dismissed case and on no other. `AttemptFits` ties an attempt to the status of
  its verification, from which follows that the context frozen at approval is the row at
  completion. The refinement reads off a case's status, the job it waits for and the jobs bound
  so far; every step moves one of them as `FindingLifecycle` allows or none.

The prover cannot reach liveness, `ENABLED` and `RECURSIVE` operators. Only model-checked are
therefore `NoJobIsStuck`, `SealSettles`, `EveryRunEnds` and `UploadedEvidenceIsDecided`. The
theorems of the library on induction over data take an operator as a parameter and cannot be
used; where it was needed a minimal counterexample took its place. The folds of the community
modules take operators too: that such a fold is what its steps say (`JoinByKeySteps`,
`ComponentsSteps`) is proved from `IteratesExist`, where the step is a function on the forests.

## 6. Fairness

*Queue*: weak fairness of the clock and of each worker's own steps except its heartbeat. A
supervisor restarts a worker process (`StartWorker`), its loop polls and sweeps for ever, and
an analyzer call ends (remote calls have a timeout). Heartbeats, uploads and operators owe
nothing. A local analyzer that hangs while its heartbeat lives is outside the assumption.

*Saga*: weak fairness of a session that has started, strong fairness of taking up an unfinished
operation again: a start of the service walks through all unfinished operations whatever
requests are in progress, and the handler's own 503 says "retry or restart to resume it".
Reviewers owe nothing.

*Work orders*: weak fairness of `WorkerStep` for each job, the worker loop that the queue's
model shows to serve every queued job. Uploads and assignments owe nothing.

*Runner*: weak fairness of each run's own steps. The predictor owes nothing: the time limit and
the two signals end the wait for it. The wait for the publish lock ends because its holder's
steps are fair too, and a crash releases a `flock`.

The remaining models state no liveness: clients drive cases, imports and the registry.

## 7. Not modelled

* *Analyzers, reference analyzer, media probe*: calls out of the process; the queue knows
  only whether they hand back a result, a transient error or a permanent one.
* *Evidence storage*: file I/O, in the saga "the evidence still has its digest".
* *Reporting, observability, frontend*: read and format; no state.
* *Algorithm readiness*: one sequential validation of a local dossier.
* *Schema and migrations, configuration, authentication*: run before the service starts; the
  numeric bounds they enforce are the assumptions on the constants.

Left out of components that are modelled:

* the inline mode of the worker (same claim and terminal write, but nothing reaps; a hazard)
  and the single-worker file lock on SQLite;
* read-only handlers, projects, baselines, metrics;
* hashes: an archive *is* or *is not* the one staged; the hash chain of the ledger and the
  Merkle tree are not modelled;
* replacement of engineering objects (`allow_replace`), which no route calls;
* controlled bundles, verification of a bundle from outside, the content of its members;
* floating point: quotients of the metrics, haversine distance, UTM projection;
* SQLite's and the geometry library's own parsing, an input of the rules;
* a child that left the process group survives the kill of the group; a crash leaves a
  temporary directory behind. The model shows both, and no document promises otherwise.

## 8. Plan

Done: the models and runs above, and proofs of every safety property, every action property
and every refinement that a passing run checks.

Left: the hash chain and Merkle tree as pure operators; the composition of queue and saga under
`VerificationLifecycle`, whose `sealing` and `approved` the queue does not reach.
