-------------------------- MODULE VerificationLease --------------------------
(***************************************************************************)
(* The durable queue of verification jobs and its fenced worker leases:    *)
(* claim, heartbeat, fenced terminal write, expiry, startup recovery and   *)
(* operator retry (src/backend/app/services/analysis.py, worker.py and the *)
(* retry handler of api/router.py).                                        *)
(*                                                                         *)
(* One action is one database transaction.  The transactions of the code   *)
(* are short and every write is a conditional UPDATE, so what a            *)
(* transaction read before its UPDATE matters only through the values the  *)
(* UPDATE does not test again.  The clock reading `now` is such a value: a *)
(* transaction may run with a reading up to MaxLag ticks old.              *)
(*                                                                         *)
(* Time is kept relative: ttl is lease_expires_at minus the database clock.*)
(***************************************************************************)
EXTENDS Integers, FiniteSets

CONSTANTS
  Jobs,          \* identifiers of verification jobs
  Workers,       \* worker processes
  WorkerId,      \* the worker_id each runs under, kept over restarts; an
                 \* operator chooses it, so two processes may share one
  LegacyJobs,    \* jobs an earlier release may have left running, with no
                 \* lease row
  MaxAttempts,   \* settings.verification_max_attempts
  LeaseTerm,     \* settings.verification_lease_seconds, in ticks
  MaxLag,        \* bound on the age of a clock reading when it is used
  Requests,      \* retry requests that may be in flight at once
  MaxCrashes,    \* bound on the crashes of one behaviour
  AtomicRetry,   \* SQLite: the retry handler holds the write lock as it reads
  RenewErrors,   \* a heartbeat may fail on a transient database error
  NoWorker, NoJob, NoTime   \* the NULLs

ASSUME ConstantsAssumption ==
  /\ LegacyJobs \subseteq Jobs
  /\ MaxAttempts \in Nat \ {0}
  /\ LeaseTerm \in Nat \ {0}
  /\ MaxLag \in Nat
  /\ MaxLag < LeaseTerm
  /\ MaxCrashes \in Nat
  /\ AtomicRetry \in BOOLEAN
  /\ RenewErrors \in BOOLEAN
  /\ \A w \in Workers : WorkerId[w] # NoWorker
  /\ NoJob \notin Jobs
  /\ NoTime \notin Int

VARIABLES
  status,        \* verification_jobs.status ("absent" before the upload)
  result,        \* the generation whose result is in result_json, 0 if NULL
  retryable,     \* payload.retryable of the latest analysis_failed audit
  lease,         \* verification_job_leases
  attempts,      \* verification_attempts (append-only)
  outcomes,      \* verification_attempt_outcomes (append-only)
  run,           \* per worker: its place in the worker loop and its claim
  recovery,      \* per worker: what its startup reconciliation has read
  retrying,      \* per retry request: the job it has checked, not yet written
  crashes        \* crashes so far

jobVars == <<status, result, retryable>>
historyVars == <<attempts, outcomes>>
vars == <<status, result, retryable, lease, attempts, outcomes, run, recovery,
          retrying, crashes>>

JobStatus == {"absent", "queued", "running", "needs_review", "failed"}
Dispositions == {"committed_success", "committed_failure", "lease_expired",
                 "lease_lost", "write_fenced"}
Verdicts == {"success", "retryable", "permanent"}
Phases == {"down", "scanned", "recovering", "idle", "analyzing", "writing",
           "reporting"}
Lags == 0..MaxLag
Generations == 0..MaxAttempts

-----------------------------------------------------------------------------
(* The lease row                                                            *)

FreshLease ==
  [present |-> TRUE, owner |-> NoWorker, generation |-> 0, attempts |-> 0,
   ttl |-> NoTime, dead |-> FALSE]
MissingLease == [FreshLease EXCEPT !.present = FALSE]

(* Mutant: the release clears the attempt count too. *)
ReleasedForgetsAttempts(l, dead) ==
  [l EXCEPT !.owner = NoWorker, !.ttl = NoTime, !.dead = @ \/ dead,
            !.attempts = 0]

(* Mutant: the release leaves the owner in the row. *)
ReleasedKeepsOwner(l, dead) == [l EXCEPT !.ttl = NoTime, !.dead = @ \/ dead]

\* _release_lease_values, with dead_lettered_at set when dead
Released(l, dead) ==
  [l EXCEPT !.owner = NoWorker, !.ttl = NoTime, !.dead = @ \/ dead]

\* lease_expires_at > now, for a clock reading lag ticks old
Unexpired(l, lag) == l.ttl # NoTime /\ l.ttl + lag > 0

\* lease_expires_at <= now, of a lease somebody holds
Lapsed(l, lag) == l.owner # NoWorker /\ l.ttl # NoTime /\ l.ttl + lag <= 0

\* the deadline a transaction writes from a reading lag ticks old
Deadline(lag) == LeaseTerm - lag

(* Mutant: off by one in the retry budget. *)
ExhaustedTooLate(l) == l.attempts > MaxAttempts

Exhausted(l) == l.attempts >= MaxAttempts

-----------------------------------------------------------------------------
(* Attempt history                                                          *)

AttemptOf(j, g) == {a \in attempts : a.job = j /\ a.generation = g}
Settled(j, g) == \E o \in outcomes : o.job = j /\ o.generation = g

Outcome(j, g, disposition, dead) ==
  [job |-> j, generation |-> g, disposition |-> disposition, dead |-> dead]

(* Mutant: the reaper and the recovery leave no outcome behind. *)
OutcomesWithoutExpiry(j, g, disposition, dead) ==
  IF AttemptOf(j, g) = {} \/ Settled(j, g) \/ disposition = "lease_expired"
  THEN outcomes
  ELSE outcomes \cup {Outcome(j, g, disposition, dead)}

\* _append_attempt_outcome(allow_existing=True): an earlier row stays
OutcomesWith(j, g, disposition, dead) ==
  IF AttemptOf(j, g) = {} \/ Settled(j, g)
  THEN outcomes
  ELSE outcomes \cup {Outcome(j, g, disposition, dead)}

-----------------------------------------------------------------------------
(* Workers                                                                  *)

Resting(phase) ==
  [phase |-> phase, job |-> NoJob, generation |-> 0, number |-> 0,
   verdict |-> "none", lost |-> FALSE]

NothingRead == [todo |-> {}, legacy |-> {}]

Busy(w) == run[w].phase \in {"analyzing", "writing", "reporting"}

(* Mutant: the fencing token is not compared. *)
FenceWithoutGeneration(w, lag) ==
  LET j == run[w].job IN
  /\ lease[j].owner = WorkerId[w]
  /\ Unexpired(lease[j], lag)
  /\ ~lease[j].dead
  /\ status[j] = "running"

(* Mutant: a lease counts as lost one tick before it expires. *)
FenceTooEarly(w, lag) ==
  LET j == run[w].job IN
  /\ lease[j].owner = WorkerId[w]
  /\ lease[j].generation = run[w].generation
  /\ lease[j].ttl # NoTime /\ lease[j].ttl + lag > 1
  /\ ~lease[j].dead
  /\ status[j] = "running"

\* the WHERE clause of a heartbeat and of a terminal write: owner, fencing
\* token, expiry, dead letter and job status
Fence(w, lag) ==
  LET j == run[w].job IN
  /\ lease[j].owner = WorkerId[w]
  /\ lease[j].generation = run[w].generation
  /\ Unexpired(lease[j], lag)
  /\ ~lease[j].dead
  /\ status[j] = "running"

-----------------------------------------------------------------------------
Init ==
  /\ status \in [Jobs -> {"absent", "running"}]
  /\ \A j \in Jobs : status[j] = "running" => j \in LegacyJobs
  /\ result = [j \in Jobs |-> 0]
  /\ retryable = [j \in Jobs |-> FALSE]
  /\ lease = [j \in Jobs |-> MissingLease]
  /\ attempts = {}
  /\ outcomes = {}
  /\ run = [w \in Workers |-> Resting("down")]
  /\ recovery = [w \in Workers |-> NothingRead]
  /\ retrying = [r \in Requests |-> NoJob]
  /\ crashes = 0

(* The upload handler stores the queued job and its lease together.         *)
CreateVerification(j) ==
  /\ status[j] = "absent"
  /\ status' = [status EXCEPT ![j] = "queued"]
  /\ lease' = [lease EXCEPT ![j] = FreshLease]
  /\ UNCHANGED <<result, retryable, historyVars, run, recovery, retrying, crashes>>

-----------------------------------------------------------------------------
(* claim_verification_job                                                   *)

(* Mutant: the claim does not test the status of the job. *)
ClaimableInAnyStatus(j, lag) ==
  /\ status[j] # "absent"
  /\ ~lease[j].dead
  /\ ~Exhausted(lease[j])
  /\ lease[j].owner = NoWorker \/ Lapsed(lease[j], lag)

\* the CAS on the lease; the CAS on the job is the test of its status
Claimable(j, lag) ==
  /\ status[j] = "queued"
  /\ ~lease[j].dead
  /\ ~Exhausted(lease[j])
  /\ lease[j].owner = NoWorker \/ Lapsed(lease[j], lag)

Claim(w, j, lag) ==
  LET g == lease[j].generation + 1
      n == lease[j].attempts + 1
  IN
  /\ run[w].phase = "idle"
  /\ Claimable(j, lag)
  /\ status' = [status EXCEPT ![j] = "running"]
  /\ lease' = [lease EXCEPT ![j] =
                 [present |-> TRUE, owner |-> WorkerId[w], generation |-> g,
                  attempts |-> n, ttl |-> Deadline(lag), dead |-> FALSE]]
  /\ attempts' = attempts \cup
                   {[job |-> j, generation |-> g, number |-> n,
                     worker |-> WorkerId[w]]}
  /\ run' = [run EXCEPT ![w] = [phase |-> "analyzing", job |-> j,
                                generation |-> g, number |-> n,
                                verdict |-> "none", lost |-> FALSE]]
  /\ UNCHANGED <<result, retryable, outcomes, recovery, retrying, crashes>>

-----------------------------------------------------------------------------
(* The heartbeat thread of a claim                                          *)

Renew(w, lag) ==
  /\ run[w].phase = "analyzing" /\ ~run[w].lost
  /\ Fence(w, lag)
  /\ lease' = [lease EXCEPT ![run[w].job].ttl = Deadline(lag)]
  /\ UNCHANGED <<jobVars, historyVars, run, recovery, retrying, crashes>>

\* zero rows, or any exception: the heartbeat sets lease_lost and stops
LoseLease(w, lag) ==
  /\ run[w].phase = "analyzing" /\ ~run[w].lost
  /\ RenewErrors \/ ~Fence(w, lag)
  /\ run' = [run EXCEPT ![w].lost = TRUE]
  /\ UNCHANGED <<jobVars, lease, historyVars, recovery, retrying, crashes>>

-----------------------------------------------------------------------------
(* run_verification_job after the claim                                     *)

Reporting(r, disposition) ==
  [r EXCEPT !.phase = "reporting", !.verdict = disposition]

\* the analyzer returned, or raised; the heartbeat is joined before the test
FinishAnalysis(w, verdict) ==
  /\ run[w].phase = "analyzing"
  /\ run' = [run EXCEPT ![w] =
               IF @.lost THEN Reporting(@, "lease_lost")
               ELSE [@ EXCEPT !.phase = "writing", !.verdict = verdict]]
  /\ UNCHANGED <<jobVars, lease, historyVars, recovery, retrying, crashes>>

\* _complete_verification_job
CommitSuccess(w, lag) ==
  LET j == run[w].job
      g == run[w].generation
  IN
  /\ run[w].phase = "writing" /\ run[w].verdict = "success"
  /\ Fence(w, lag)
  /\ ~Settled(j, g)
  /\ outcomes' = outcomes \cup {Outcome(j, g, "committed_success", FALSE)}
  /\ result' = [result EXCEPT ![j] = g]
  /\ status' = [status EXCEPT ![j] = "needs_review"]
  /\ lease' = [lease EXCEPT ![j] = Released(@, FALSE)]
  /\ run' = [run EXCEPT ![w] = Resting("idle")]
  /\ UNCHANGED <<retryable, attempts, recovery, retrying, crashes>>

\* an exception under _complete_verification_job (a refused work-order
\* transition, say) rolls the transaction back and is handled as a failure
CompletionRaises(w) ==
  /\ run[w].phase = "writing" /\ run[w].verdict = "success"
  /\ run' = [run EXCEPT ![w].verdict = "permanent"]
  /\ UNCHANGED <<jobVars, lease, historyVars, recovery, retrying, crashes>>

\* _fail_verification_job
CommitFailure(w, lag) ==
  LET j == run[w].job
      g == run[w].generation
      again == run[w].verdict = "retryable"
      dead == again /\ run[w].number >= MaxAttempts
  IN
  /\ run[w].phase = "writing" /\ run[w].verdict # "success"
  /\ Fence(w, lag)
  /\ ~Settled(j, g)
  /\ outcomes' = outcomes \cup {Outcome(j, g, "committed_failure", dead)}
  /\ status' = [status EXCEPT ![j] = "failed"]
  /\ retryable' = [retryable EXCEPT ![j] = again]
  /\ lease' = [lease EXCEPT ![j] = Released(@, dead)]
  /\ run' = [run EXCEPT ![w] = Resting("idle")]
  /\ UNCHANGED <<result, attempts, recovery, retrying, crashes>>

\* the terminal write hit zero rows; its transaction is rolled back
WriteFenced(w, lag) ==
  /\ run[w].phase = "writing"
  /\ ~Fence(w, lag)
  /\ run' = [run EXCEPT ![w] = Reporting(@, "write_fenced")]
  /\ UNCHANGED <<jobVars, lease, historyVars, recovery, retrying, crashes>>

\* _record_fenced_write, in a transaction of its own whose errors are swallowed
ReportLoss(w) ==
  /\ run[w].phase = "reporting"
  /\ \/ outcomes' = OutcomesWith(run[w].job, run[w].generation,
                                 run[w].verdict, FALSE)
     \/ UNCHANGED outcomes
  /\ run' = [run EXCEPT ![w] = Resting("idle")]
  /\ UNCHANGED <<jobVars, lease, attempts, recovery, retrying, crashes>>

-----------------------------------------------------------------------------
(* Expiry                                                                   *)

(* Mutant: an exhausted job is requeued like any other. *)
ExpireAlwaysRequeues(j, dead) ==
  /\ lease' = [lease EXCEPT ![j] = Released(@, FALSE)]
  /\ status' = [status EXCEPT ![j] = "queued"]
  /\ result' = [result EXCEPT ![j] = 0]
  /\ outcomes' = OutcomesWith(j, lease[j].generation, "lease_expired", FALSE)
  /\ UNCHANGED <<retryable, attempts>>

\* what the reaper and the startup recovery write once their CAS held
Expire(j, dead) ==
  /\ lease' = [lease EXCEPT ![j] = Released(@, dead)]
  /\ status' = [status EXCEPT ![j] = IF dead THEN "failed" ELSE "queued"]
  /\ result' = [result EXCEPT ![j] = IF dead THEN @ ELSE 0]
  /\ outcomes' = OutcomesWith(j, lease[j].generation, "lease_expired", dead)
  /\ UNCHANGED <<retryable, attempts>>

\* reap_expired_verification_jobs, from the worker loop before each poll
Reap(w, j, lag) ==
  /\ run[w].phase = "idle"
  /\ status[j] = "running"
  /\ Lapsed(lease[j], lag)
  /\ Expire(j, Exhausted(lease[j]))
  /\ UNCHANGED <<run, recovery, retrying, crashes>>

-----------------------------------------------------------------------------
(* recover_pending_verification_jobs, at the start of a process             *)

\* two SELECTs: the unfinished jobs, and which of them have no lease row
StartWorker(w) ==
  LET todo == {j \in Jobs : status[j] \in {"queued", "running"}} IN
  /\ run[w].phase = "down"
  /\ run' = [run EXCEPT ![w] = Resting("scanned")]
  /\ recovery' = [recovery EXCEPT ![w] =
       [todo |-> todo,
        legacy |-> {j \in todo : status[j] = "running" /\ ~lease[j].present}]]
  /\ UNCHANGED <<jobVars, lease, historyVars, retrying, crashes>>

\* ensure_verification_job_lease for each of them, committed at once
SeedLeases(w) ==
  /\ run[w].phase = "scanned"
  /\ lease' = [j \in Jobs |->
       [lease[j] EXCEPT !.present = @ \/ j \in recovery[w].todo]]
  /\ run' = [run EXCEPT ![w] = Resting("recovering")]
  /\ UNCHANGED <<jobVars, historyVars, recovery, retrying, crashes>>

Reconciled(w, j) ==
  /\ run[w].phase = "recovering"
  /\ j \in recovery[w].todo
  /\ recovery' = [recovery EXCEPT ![w].todo = @ \ {j}]
  /\ UNCHANGED <<run, retrying, crashes>>

\* a legacy job's CAS asks for a lease nobody ever held
OrphanedLegacy(w, j) ==
  /\ status[j] = "running"
  /\ j \in recovery[w].legacy
  /\ lease[j].owner = NoWorker
  /\ lease[j].ttl = NoTime

\* the CAS of any other job asks for its owner and an expiry in the past
LapsedAtStartup(w, j, lag) ==
  /\ status[j] = "running"
  /\ j \notin recovery[w].legacy
  /\ Lapsed(lease[j], lag)

RecoverLegacy(w, j) ==
  /\ OrphanedLegacy(w, j)
  /\ Reconciled(w, j)
  /\ Expire(j, FALSE)

RecoverLapsed(w, j, lag) ==
  /\ LapsedAtStartup(w, j, lag)
  /\ Reconciled(w, j)
  /\ Expire(j, Exhausted(lease[j]))

(* Mutant: a starting process releases every lease it did not recover. *)
RecoverOtherReleasesAll(w, j, lag) ==
  /\ ~OrphanedLegacy(w, j)
  /\ ~LapsedAtStartup(w, j, lag)
  /\ Reconciled(w, j)
  /\ lease' = [lease EXCEPT ![j] = Released(@, FALSE)]
  /\ UNCHANGED <<jobVars, historyVars>>

\* a live lease and a finished job are left alone; a queued job is released
RecoverOther(w, j, lag) ==
  /\ ~OrphanedLegacy(w, j)
  /\ ~LapsedAtStartup(w, j, lag)
  /\ Reconciled(w, j)
  /\ lease' = [lease EXCEPT ![j] =
                 IF status[j] = "queued" THEN Released(@, FALSE) ELSE @]
  /\ UNCHANGED <<jobVars, historyVars>>

\* the worker enters its poll loop
EnterLoop(w) ==
  /\ run[w].phase = "recovering"
  /\ recovery[w].todo = {}
  /\ run' = [run EXCEPT ![w] = Resting("idle")]
  /\ recovery' = [recovery EXCEPT ![w] = NothingRead]
  /\ UNCHANGED <<jobVars, lease, historyVars, retrying, crashes>>

\* a process dies between two transactions
Crash(w) ==
  /\ run[w].phase # "down"
  /\ crashes < MaxCrashes
  /\ crashes' = crashes + 1
  /\ run' = [run EXCEPT ![w] = Resting("down")]
  /\ recovery' = [recovery EXCEPT ![w] = NothingRead]
  /\ UNCHANGED <<jobVars, lease, historyVars, retrying>>

-----------------------------------------------------------------------------
(* retry_verification                                                       *)

(* Mutant: an operator may retry whatever the budget says. *)
MayRetryBeyondBudget(j) ==
  /\ status[j] = "failed"
  /\ retryable[j]

MayRetry(j) ==
  /\ status[j] = "failed"
  /\ retryable[j]
  /\ ~lease[j].dead
  /\ ~Exhausted(lease[j])

Requeue(j) ==
  /\ status' = [status EXCEPT ![j] = "queued"]
  /\ result' = [result EXCEPT ![j] = 0]

\* SQLite: INSERT ... ON CONFLICT DO NOTHING takes the write lock before the
\* checks are read
Retry(j) ==
  /\ AtomicRetry
  /\ MayRetry(j)
  /\ Requeue(j)
  /\ UNCHANGED <<retryable, lease, historyVars, run, recovery, retrying, crashes>>

\* PostgreSQL: the checks read, and only the status is tested again
RetryCheck(r, j) ==
  /\ ~AtomicRetry
  /\ retrying[r] = NoJob
  /\ MayRetry(j)
  /\ retrying' = [retrying EXCEPT ![r] = j]
  /\ UNCHANGED <<jobVars, lease, historyVars, run, recovery, crashes>>

RetryWrite(r) ==
  LET j == retrying[r] IN
  /\ j # NoJob
  /\ retrying' = [retrying EXCEPT ![r] = NoJob]
  /\ IF status[j] = "failed" THEN Requeue(j) ELSE UNCHANGED <<status, result>>
  /\ UNCHANGED <<retryable, lease, historyVars, run, recovery, crashes>>

-----------------------------------------------------------------------------
\* one tick of the database clock; an expiry too old for any lag stays put
Older(l) ==
  IF l.ttl = NoTime \/ l.ttl = -MaxLag THEN l ELSE [l EXCEPT !.ttl = @ - 1]

Tick ==
  /\ \E j \in Jobs : Older(lease[j]) # lease[j]
  /\ lease' = [j \in Jobs |-> Older(lease[j])]
  /\ UNCHANGED <<jobVars, historyVars, run, recovery, retrying, crashes>>

Poll(w) ==
  \E j \in Jobs, lag \in Lags : Claim(w, j, lag)

Sweep(w) ==
  \E j \in Jobs, lag \in Lags : Reap(w, j, lag)

Heartbeat(w) ==
  \E lag \in Lags : Renew(w, lag) \/ LoseLease(w, lag)

Finish(w) ==
  \E verdict \in Verdicts : FinishAnalysis(w, verdict)

TerminalWrite(w) ==
  \/ \E lag \in Lags : CommitSuccess(w, lag) \/ CommitFailure(w, lag)
                         \/ WriteFenced(w, lag)
  \/ CompletionRaises(w)

Recover(w) ==
  \E j \in Jobs, lag \in Lags : RecoverLegacy(w, j) \/ RecoverLapsed(w, j, lag)
                                  \/ RecoverOther(w, j, lag)

WorkerStep(w) ==
  \/ StartWorker(w) \/ SeedLeases(w) \/ Recover(w) \/ EnterLoop(w)
  \/ Poll(w) \/ Sweep(w)
  \/ Heartbeat(w) \/ Finish(w) \/ TerminalWrite(w) \/ ReportLoss(w)
  \/ Crash(w)

ApiStep ==
  \/ \E j \in Jobs : CreateVerification(j) \/ Retry(j)
  \/ \E r \in Requests : RetryWrite(r) \/ \E j \in Jobs : RetryCheck(r, j)

Next ==
  \/ \E w \in Workers : WorkerStep(w)
  \/ ApiStep
  \/ Tick

Spec == Init /\ [][Next]_vars

(* Processes are restarted, the loop of a worker goes on, an analyzer call *)
(* ends (remote calls have a timeout) and time passes.  Nothing is assumed *)
(* of heartbeats, of operators or of uploads.                              *)
Fairness ==
  /\ WF_vars(Tick)
  /\ \A w \in Workers :
       /\ WF_vars(StartWorker(w)) /\ WF_vars(SeedLeases(w))
       /\ WF_vars(Recover(w)) /\ WF_vars(EnterLoop(w))
       /\ WF_vars(Poll(w)) /\ WF_vars(Sweep(w))
       /\ WF_vars(Finish(w)) /\ WF_vars(TerminalWrite(w))
       /\ WF_vars(ReportLoss(w))

FairSpec == Spec /\ Fairness
-----------------------------------------------------------------------------
(* Properties                                                               *)

LeaseType ==
  [present : BOOLEAN, owner : {NoWorker} \cup {WorkerId[w] : w \in Workers},
   generation : Generations, attempts : Generations,
   ttl : {NoTime} \cup (-MaxLag..LeaseTerm), dead : BOOLEAN]

AttemptType ==
  [job : Jobs, generation : 1..MaxAttempts, number : 1..MaxAttempts,
   worker : {WorkerId[w] : w \in Workers}]

OutcomeType ==
  [job : Jobs, generation : 1..MaxAttempts, disposition : Dispositions,
   dead : BOOLEAN]

RunType ==
  [phase : Phases, job : Jobs \cup {NoJob}, generation : Generations,
   number : Generations, verdict : {"none"} \cup Verdicts \cup Dispositions,
   lost : BOOLEAN]

\* Every variable has the type of the column or local variable it stands for;
\* in particular the counters of a lease stay within the retry budget.
TypeOK ==
  /\ status \in [Jobs -> JobStatus]
  /\ result \in [Jobs -> Generations]
  /\ retryable \in [Jobs -> BOOLEAN]
  /\ lease \in [Jobs -> LeaseType]
  /\ attempts \subseteq AttemptType
  /\ outcomes \subseteq OutcomeType
  /\ run \in [Workers -> RunType]
  /\ recovery \in [Workers -> [todo : SUBSET Jobs, legacy : SUBSET Jobs]]
  /\ retrying \in [Requests -> Jobs \cup {NoJob}]
  /\ crashes \in 0..MaxCrashes

\* The immutable attempt rows of a job are numbered 1, 2, ... without a gap or
\* a duplicate up to the counters of its lease, as the readiness scan demands
\* ("lease counters disagree with attempt history"), whatever crashes and
\* takeovers lie between two claims.
AttemptHistoryMatchesLease ==
  \A j \in Jobs :
    /\ lease[j].generation = lease[j].attempts
    /\ \A n \in 1..lease[j].attempts :
         \E a \in attempts :
           /\ a.job = j /\ a.number = n
           /\ \A b \in attempts : b.job = j /\ b.number = n => b = a
    /\ \A a \in attempts : a.job = j =>
         a.generation = a.number /\ a.number <= lease[j].attempts

\* A worker whose terminal write passes the fence never finds that its attempt
\* already has an outcome: _append_attempt_outcome would raise there, in the
\* completion and again in the failure handler, and take the worker down.
FencedWriteNeverConflicts ==
  \A w \in Workers, lag \in Lags :
    run[w].phase = "writing" /\ Fence(w, lag) =>
      ~Settled(run[w].job, run[w].generation)

\* Each attempt has at most one outcome.
OneOutcomePerAttempt ==
  \A o1, o2 \in outcomes :
    o1.job = o2.job /\ o1.generation = o2.generation => o1 = o2

\* An attempt without an outcome is the current one of a running job, so no
\* takeover, retry or dead letter leaves an attempt without a terminal row.
UnsettledAttemptIsCurrent ==
  \A a \in attempts :
    ~Settled(a.job, a.generation) =>
      /\ status[a.job] = "running"
      /\ lease[a.job].generation = a.generation
      /\ lease[a.job].owner = a.worker

\* A job is up for review exactly when one of its attempts committed a
\* success; that attempt is the last one claimed, the result is its result,
\* and no other attempt of the job succeeded.
ReviewedResultIsTheLastSuccess ==
  \A j \in Jobs :
    LET successes == {o \in outcomes : /\ o.job = j
                                       /\ o.disposition = "committed_success"}
    IN  /\ (status[j] = "needs_review") <=> successes # {}
        /\ \A o \in successes : /\ o.generation = lease[j].generation
                                /\ o.generation = result[j]

\* A queued job is free, within its budget and not dead-lettered.
QueuedIsClaimable ==
  \A j \in Jobs : status[j] = "queued" =>
    /\ lease[j].owner = NoWorker
    /\ ~lease[j].dead
    /\ ~Exhausted(lease[j])

\* A running job has an owner and an expiry, unless an earlier release left it
\* running and nobody has claimed it since.
RunningIsOwned ==
  \A j \in Jobs : status[j] = "running" =>
    \/ lease[j].owner # NoWorker /\ lease[j].ttl # NoTime
    \/ j \in LegacyJobs /\ lease[j].attempts = 0

\* No job falls out of everybody's sight: a queued one can be claimed by a
\* worker's poll, a running one can be found by the reaper, whatever retries,
\* takeovers and half-finished recoveries came before.
QueuedOrOwned == QueuedIsClaimable /\ RunningIsOwned

Live(o) ==
  /\ status[o.job] = "running"
  /\ lease[o.job].generation = o.generation
  /\ Unexpired(lease[o.job], 0)

\* An outcome beside a live lease of its attempt is that of a worker which gave
\* its lease up because a heartbeat failed on the database.  A write that was
\* fenced and an attempt that was expired had no lease any more.
OnlyLostLeaseOutlivesItsOutcome ==
  \A o \in outcomes : Live(o) => o.disposition = "lease_lost"

\* The worker, a reaper, a startup recovery and a fenced worker reporting its
\* loss agree about an attempt: one of them writes its outcome, and what it
\* writes fits the lease.
OutcomesAgree == OneOutcomePerAttempt /\ OnlyLostLeaseOutlivesItsOutcome

\* Neither a recovery nor a retry brings a dead-lettered job back.
DeadLetterIsFinal ==
  [][\A j \in Jobs : lease[j].dead =>
       lease'[j].dead /\ status[j] = "failed" /\ status'[j] = "failed"]_vars

\* A job that was queued or claimed reaches review or failure.
EveryJobSettles ==
  \A j \in Jobs :
    (status[j] = "queued" \/ (status[j] = "running" /\ lease[j].owner # NoWorker))
      ~> status[j] \in {"needs_review", "failed"}

\* A job an earlier release left running is requeued when no process dies any
\* more from the time its lease row is seeded.  A death between the two commits
\* of the recovery leaves it running, without an owner, for ever.
LegacyJobsAreRequeuedUnlessCrashed ==
  \A j \in LegacyJobs :
    (status[j] = "running" /\ ~lease[j].present /\ crashes = MaxCrashes)
      ~> status[j] # "running"

\* Workers restart, leases expire and budgets end: no job waits for ever, nor
\* one an earlier release left behind.
NoJobIsStuck == EveryJobSettles /\ LegacyJobsAreRequeuedUnlessCrashed

\* The detailed queue implements the abstract life of a verification job.
Lifecycle ==
  INSTANCE VerificationLifecycle WITH
    Budget <- MaxAttempts,
    Inherited <- LegacyJobs,
    state <- [j \in Jobs |-> status[j]],
    spent <- [j \in Jobs |-> lease[j].attempts],
    delivered <- result,
    closed <- [j \in Jobs |->
                 status[j] = "failed" /\ (lease[j].dead \/ ~retryable[j])]

ImplementsLifecycle == Lifecycle!Spec
=============================================================================
