----------------------- MODULE VerificationLeaseProofs -----------------------
(***************************************************************************)
(* Theorems about VerificationLease, for every number of jobs, workers and *)
(* attempts, every lease term, any sharing of worker names and both        *)
(* database dialects.                                                      *)
(*                                                                         *)
(* The properties are not inductive as they stand.  LeaseInv adds what     *)
(* ties a worker's local claim to the rows it wrote, and what ties the     *)
(* columns of a lease to the status of its job.                            *)
(***************************************************************************)
EXTENDS VerificationLease, TLAPS

\* The fencing token and the attempt count of a lease advance together, and
\* stay zero until the job has been uploaded.
CountersAgree ==
  \A j \in Jobs :
    /\ lease[j].generation = lease[j].attempts
    /\ status[j] = "absent" => lease[j].attempts = 0

\* A worker that works on a claim knows its job and its token, and has a
\* verdict that fits its phase.
VerdictFits(r) ==
  /\ r.phase = "writing" => r.verdict \in Verdicts
  /\ r.phase = "reporting" => r.verdict \in {"lease_lost", "write_fenced"}

ClaimIsKnown ==
  \A w \in Workers :
    /\ Busy(w) => /\ run[w].job \in Jobs
                  /\ run[w].generation \in 1..MaxAttempts
    /\ VerdictFits(run[w])

\* A claim left its attempt row, under the name of its worker.
ClaimHasAttempt ==
  \A w \in Workers : Busy(w) =>
    \E a \in attempts :
      /\ a.job = run[w].job
      /\ a.generation = run[w].generation
      /\ a.worker = WorkerId[w]

\* Two workers never hold the same token of a job, even under one name.
TokensDiffer ==
  \A w, v \in Workers :
    Busy(w) /\ Busy(v) /\ w # v /\ run[w].job = run[v].job =>
      run[w].generation # run[v].generation

\* An outcome belongs to an attempt.
OutcomeHasAttempt ==
  \A o \in outcomes :
    \E a \in attempts : a.job = o.job /\ a.generation = o.generation

\* A worker whose claim is still the one in the lease has no outcome yet.
Current(w) ==
  /\ run[w].phase \in {"analyzing", "writing"}
  /\ lease[run[w].job].generation = run[w].generation
  /\ lease[run[w].job].owner = WorkerId[w]

CurrentClaimIsOpen ==
  \A w \in Workers : Current(w) => ~Settled(run[w].job, run[w].generation)

\* A held lease has an expiry and belongs to a running job; a running job that
\* nobody holds was found running and has never been claimed.
LeaseFitsStatus ==
  \A j \in Jobs :
    /\ lease[j].owner = NoWorker <=> lease[j].ttl = NoTime
    /\ lease[j].owner # NoWorker => status[j] = "running"
    /\ status[j] = "running" /\ lease[j].owner = NoWorker =>
         lease[j].attempts = 0 /\ j \in LegacyJobs

\* Where the retry handler is atomic, a dead letter marks a failed job and the
\* budget of a queued job is not spent.
BudgetIsKept ==
  AtomicRetry =>
    /\ \A r \in Requests : retrying[r] = NoJob
    /\ \A j \in Jobs : /\ lease[j].dead => status[j] = "failed"
                       /\ status[j] = "queued" => ~Exhausted(lease[j])

LeaseInv ==
  /\ TypeOK
  /\ CountersAgree
  /\ ClaimIsKnown
  /\ AttemptHistoryMatchesLease
  /\ ClaimHasAttempt
  /\ TokensDiffer
  /\ OutcomeHasAttempt
  /\ CurrentClaimIsOpen
  /\ UnsettledAttemptIsCurrent
  /\ LeaseFitsStatus
  /\ BudgetIsKept

-----------------------------------------------------------------------------
(* Initially                                                                *)

\* A worker without a claim has the type of a worker's locals.
LEMMA RestingType ==
  ASSUME NEW phase \in Phases
  PROVE  Resting(phase) \in RunType
  BY ConstantsAssumption DEF Resting, RunType, Generations

\* The lease of an upload, and the missing one of a legacy job, are leases.
LEMMA FreshLeaseType == FreshLease \in LeaseType /\ MissingLease \in LeaseType
<1>1. 0 \in Generations
  BY ConstantsAssumption DEF Generations
<1>2. FreshLease \in LeaseType
  BY <1>1 DEF FreshLease, LeaseType
<1>3. MissingLease \in LeaseType
  BY <1>2 DEF MissingLease, LeaseType
<1> QED
  BY <1>2, <1>3

\* The invariant holds of a database with nothing but inherited jobs.
LEMMA InitLeaseInv == Init => LeaseInv
<1> SUFFICES ASSUME Init PROVE LeaseInv
  OBVIOUS
<1> USE ConstantsAssumption DEF Init, FreshLease, MissingLease, Resting
<1>1. TypeOK
  <2>1. lease \in [Jobs -> LeaseType]
    BY FreshLeaseType
  <2>2. run \in [Workers -> RunType]
    BY RestingType DEF Phases
  <2>3. recovery \in [Workers -> [todo : SUBSET Jobs, legacy : SUBSET Jobs]]
    BY DEF NothingRead
  <2>4. status \in [Jobs -> JobStatus]
    BY DEF JobStatus
  <2>5. result \in [Jobs -> Generations] /\ crashes \in 0..MaxCrashes
    BY DEF Generations
  <2> QED
    BY <2>1, <2>2, <2>3, <2>4, <2>5 DEF TypeOK
<1>2. CountersAgree /\ LeaseFitsStatus /\ BudgetIsKept
  BY DEF CountersAgree, LeaseFitsStatus, BudgetIsKept, Exhausted
<1>3. ClaimIsKnown /\ ClaimHasAttempt /\ TokensDiffer /\ CurrentClaimIsOpen
  BY DEF ClaimIsKnown, ClaimHasAttempt, TokensDiffer, CurrentClaimIsOpen,
         VerdictFits, Current, Busy
<1>4. AttemptHistoryMatchesLease
  BY DEF AttemptHistoryMatchesLease
<1>5. OutcomeHasAttempt /\ UnsettledAttemptIsCurrent
  BY DEF OutcomeHasAttempt, UnsettledAttemptIsCurrent
<1> QED
  BY <1>1, <1>2, <1>3, <1>4, <1>5 DEF LeaseInv

-----------------------------------------------------------------------------
(* Types                                                                    *)

\* Releasing a lease (_release_lease_values) keeps its counters and its dead
\* letter.
LEMMA ReleasedType ==
  ASSUME NEW l \in LeaseType, NEW dead \in BOOLEAN
  PROVE  /\ Released(l, dead) \in LeaseType
         /\ Released(l, dead).generation = l.generation
         /\ Released(l, dead).attempts = l.attempts
         /\ Released(l, dead).owner = NoWorker
         /\ Released(l, dead).ttl = NoTime
         /\ Released(l, dead).dead = (l.dead \/ dead)
         /\ l.dead => Released(l, dead).dead
  BY DEF Released, LeaseType

\* A new expiry leaves a lease a lease.
LEMMA RenewedType ==
  ASSUME NEW l \in LeaseType, NEW t \in -MaxLag..LeaseTerm
  PROVE  [l EXCEPT !.ttl = t] \in LeaseType
  BY DEF LeaseType

\* Seeding the row of a job (ensure_verification_job_lease) keeps its type.
LEMMA SeededType ==
  ASSUME NEW l \in LeaseType, NEW b \in BOOLEAN
  PROVE  [l EXCEPT !.present = @ \/ b] \in LeaseType
  BY DEF LeaseType

\* A tick of the clock keeps the type of a lease.
LEMMA OlderType ==
  ASSUME NEW l \in LeaseType
  PROVE  Older(l) \in LeaseType
<1>1. CASE l.ttl = NoTime \/ l.ttl = -MaxLag
  BY <1>1 DEF Older
<1>2. CASE ~(l.ttl = NoTime \/ l.ttl = -MaxLag)
  <2>1. l.ttl \in -MaxLag..LeaseTerm
    BY <1>2 DEF LeaseType
  <2>2. l.ttl - 1 \in -MaxLag..LeaseTerm
    BY <2>1, <1>2, ConstantsAssumption
  <2> QED
    BY <1>2, <2>2, RenewedType DEF Older
<1> QED
  BY <1>1, <1>2

\* A deadline written from a reading at most MaxLag old is in the future.
LEMMA DeadlineType ==
  ASSUME NEW lag \in Lags
  PROVE  /\ Deadline(lag) \in -MaxLag..LeaseTerm
         /\ Deadline(lag) # NoTime
  BY ConstantsAssumption DEF Deadline, Lags

\* A report or an expiry adds at most the outcome of an attempt that exists.
LEMMA OutcomesWithType ==
  ASSUME attempts \subseteq AttemptType, outcomes \subseteq OutcomeType,
         NEW j \in Jobs, NEW g, NEW d \in Dispositions, NEW dead \in BOOLEAN
  PROVE  OutcomesWith(j, g, d, dead) \subseteq OutcomeType
<1>1. CASE AttemptOf(j, g) = {}
  BY <1>1 DEF OutcomesWith
<1>2. CASE AttemptOf(j, g) # {}
  <2>1. g \in 1..MaxAttempts
    BY <1>2 DEF AttemptOf, AttemptType
  <2> QED
    BY <2>1 DEF OutcomesWith, Outcome, OutcomeType
<1> QED
  BY <1>1, <1>2

\* What a reaper or a recovery writes is typed.
LEMMA ExpireType ==
  ASSUME TypeOK, NEW j \in Jobs, NEW dead \in BOOLEAN, Expire(j, dead)
  PROVE  /\ status' \in [Jobs -> JobStatus]
         /\ result' \in [Jobs -> Generations]
         /\ retryable' \in [Jobs -> BOOLEAN]
         /\ lease' \in [Jobs -> LeaseType]
         /\ attempts' \subseteq AttemptType
         /\ outcomes' \subseteq OutcomeType
<1>1. lease' \in [Jobs -> LeaseType]
  BY ReleasedType DEF TypeOK, Expire
<1>2. outcomes' \subseteq OutcomeType
  BY OutcomesWithType DEF TypeOK, Expire, Dispositions
<1> QED
  BY <1>1, <1>2, ConstantsAssumption DEF TypeOK, Expire, JobStatus, Generations

\* Every step keeps the types.
LEMMA TypeStep ==
  ASSUME TypeOK, CountersAgree, ClaimIsKnown, [Next]_vars
  PROVE  TypeOK'
<1> USE DEF jobVars, historyVars
<1>1. ASSUME NEW w \in Workers, NEW j \in Jobs, NEW lag \in Lags, Claim(w, j, lag)
      PROVE  TypeOK'
  <2>1. /\ lease[j].generation + 1 \in 1..MaxAttempts
        /\ lease[j].attempts + 1 \in 1..MaxAttempts
    BY <1>1, ConstantsAssumption
    DEF TypeOK, CountersAgree, Claim, Claimable, Exhausted, LeaseType,
        Generations
  <2>2. lease' \in [Jobs -> LeaseType]
    BY <1>1, <2>1, DeadlineType DEF TypeOK, Claim, LeaseType, Generations
  <2>3. attempts' \subseteq AttemptType
    BY <1>1, <2>1 DEF TypeOK, Claim, AttemptType
  <2>4. run' \in [Workers -> RunType]
    BY <1>1, <2>1 DEF TypeOK, Claim, RunType, Phases, Generations
  <2> QED
    BY <1>1, <2>2, <2>3, <2>4 DEF TypeOK, Claim, JobStatus
<1>2. ASSUME NEW w \in Workers, NEW lag \in Lags, Renew(w, lag)
      PROVE  TypeOK'
  <2>1. run[w].job \in Jobs
    BY <1>2 DEF Renew, ClaimIsKnown, Busy
  <2>2. lease' \in [Jobs -> LeaseType]
    BY <1>2, <2>1, DeadlineType, RenewedType DEF TypeOK, Renew
  <2> QED
    BY <1>2, <2>2 DEF TypeOK, Renew
<1>3. ASSUME NEW w \in Workers, NEW lag \in Lags, LoseLease(w, lag)
      PROVE  TypeOK'
  <2>1. run' \in [Workers -> RunType]
    BY <1>3 DEF TypeOK, LoseLease, RunType
  <2> QED
    BY <1>3, <2>1 DEF TypeOK, LoseLease
<1>4. ASSUME NEW w \in Workers, NEW verdict \in Verdicts, FinishAnalysis(w, verdict)
      PROVE  TypeOK'
  <2>1. ASSUME NEW r \in RunType
        PROVE  /\ Reporting(r, "lease_lost") \in RunType
               /\ [r EXCEPT !.phase = "writing", !.verdict = verdict] \in RunType
    BY DEF Reporting, RunType, Phases, Dispositions
  <2>2. run' \in [Workers -> RunType]
    BY <1>4, <2>1 DEF TypeOK, FinishAnalysis
  <2> QED
    BY <1>4, <2>2 DEF TypeOK, FinishAnalysis
<1>5. ASSUME NEW w \in Workers, NEW lag \in Lags, CommitSuccess(w, lag)
      PROVE  TypeOK'
  <2>1. /\ run[w].job \in Jobs
        /\ run[w].generation \in 1..MaxAttempts
    BY <1>5 DEF CommitSuccess, ClaimIsKnown, Busy
  <2>2. lease' \in [Jobs -> LeaseType]
    <3>1. Released(lease[run[w].job], FALSE) \in LeaseType
      BY <2>1, ReleasedType DEF TypeOK
    <3> QED
      BY <1>5, <3>1 DEF TypeOK, CommitSuccess
  <2>3. outcomes' \subseteq OutcomeType
    <3>1. Outcome(run[w].job, run[w].generation, "committed_success", FALSE)
            \in OutcomeType
      BY <2>1 DEF Outcome, OutcomeType, Dispositions
    <3> QED
      BY <1>5, <3>1 DEF TypeOK, CommitSuccess
  <2>4. run' \in [Workers -> RunType]
    BY <1>5, RestingType DEF TypeOK, Phases, CommitSuccess
  <2>5. status' \in [Jobs -> JobStatus] /\ result' \in [Jobs -> Generations]
    BY <1>5, <2>1, ConstantsAssumption
    DEF TypeOK, CommitSuccess, JobStatus, Generations
  <2> QED
    BY <1>5, <2>2, <2>3, <2>4, <2>5 DEF TypeOK, CommitSuccess
<1>6. ASSUME NEW w \in Workers, CompletionRaises(w)
      PROVE  TypeOK'
  <2>1. run' \in [Workers -> RunType]
    BY <1>6 DEF TypeOK, CompletionRaises, RunType, Verdicts
  <2> QED
    BY <1>6, <2>1 DEF TypeOK, CompletionRaises
<1>7. ASSUME NEW w \in Workers, NEW lag \in Lags, CommitFailure(w, lag)
      PROVE  TypeOK'
  <2>1. /\ run[w].job \in Jobs
        /\ run[w].generation \in 1..MaxAttempts
    BY <1>7 DEF CommitFailure, ClaimIsKnown, Busy
  <2>2. lease' \in [Jobs -> LeaseType]
    <3>1. \A dead \in BOOLEAN : Released(lease[run[w].job], dead) \in LeaseType
      BY <2>1, ReleasedType DEF TypeOK
    <3> QED
      BY <1>7, <3>1 DEF TypeOK, CommitFailure
  <2>3. outcomes' \subseteq OutcomeType
    <3>1. \A dead \in BOOLEAN :
            Outcome(run[w].job, run[w].generation, "committed_failure", dead)
              \in OutcomeType
      BY <2>1 DEF Outcome, OutcomeType, Dispositions
    <3> QED
      BY <1>7, <3>1 DEF TypeOK, CommitFailure
  <2>4. run' \in [Workers -> RunType]
    BY <1>7, RestingType DEF TypeOK, Phases, CommitFailure
  <2> QED
    BY <1>7, <2>1, <2>2, <2>3, <2>4 DEF TypeOK, CommitFailure, JobStatus
<1>8. ASSUME NEW w \in Workers, NEW lag \in Lags, WriteFenced(w, lag)
      PROVE  TypeOK'
  <2>1. ASSUME NEW r \in RunType
        PROVE  Reporting(r, "write_fenced") \in RunType
    BY DEF Reporting, RunType, Phases, Dispositions
  <2>2. run' \in [Workers -> RunType]
    BY <1>8, <2>1 DEF TypeOK, WriteFenced
  <2> QED
    BY <1>8, <2>2 DEF TypeOK, WriteFenced
<1>9. ASSUME NEW w \in Workers, ReportLoss(w)
      PROVE  TypeOK'
  <2>1. /\ run[w].job \in Jobs
        /\ run[w].verdict \in Dispositions
    BY <1>9 DEF ReportLoss, ClaimIsKnown, VerdictFits, Busy, Dispositions
  <2>2. outcomes' \subseteq OutcomeType
    <3>1. OutcomesWith(run[w].job, run[w].generation, run[w].verdict, FALSE)
            \subseteq OutcomeType
      BY <2>1, OutcomesWithType DEF TypeOK
    <3> QED
      BY <1>9, <3>1 DEF TypeOK, ReportLoss
  <2>3. run' \in [Workers -> RunType]
    BY <1>9, RestingType DEF TypeOK, Phases, ReportLoss
  <2> QED
    BY <1>9, <2>2, <2>3 DEF TypeOK, ReportLoss
<1>10. ASSUME NEW w \in Workers, NEW j \in Jobs, NEW lag \in Lags, Reap(w, j, lag)
       PROVE  TypeOK'
  <2>1. Exhausted(lease[j]) \in BOOLEAN
    BY DEF Exhausted
  <2> QED
    BY <1>10, <2>1, ExpireType DEF TypeOK, Reap
<1>11. ASSUME NEW w \in Workers, StartWorker(w)
       PROVE  TypeOK'
  <2>1. run' \in [Workers -> RunType]
    BY <1>11, RestingType DEF TypeOK, Phases, StartWorker
  <2>2. recovery' \in [Workers -> [todo : SUBSET Jobs, legacy : SUBSET Jobs]]
    BY <1>11 DEF TypeOK, StartWorker
  <2> QED
    BY <1>11, <2>1, <2>2 DEF TypeOK, StartWorker
<1>12. ASSUME NEW w \in Workers, SeedLeases(w)
       PROVE  TypeOK'
  <2>1. run' \in [Workers -> RunType]
    BY <1>12, RestingType DEF TypeOK, Phases, SeedLeases
  <2>2. lease' \in [Jobs -> LeaseType]
    BY <1>12, SeededType DEF TypeOK, SeedLeases
  <2> QED
    BY <1>12, <2>1, <2>2 DEF TypeOK, SeedLeases
<1>13. ASSUME NEW w \in Workers, NEW j \in Jobs, RecoverLegacy(w, j)
       PROVE  TypeOK'
  BY <1>13, ExpireType DEF TypeOK, RecoverLegacy, Reconciled
<1>14. ASSUME NEW w \in Workers, NEW j \in Jobs, NEW lag \in Lags,
              RecoverLapsed(w, j, lag)
       PROVE  TypeOK'
  <2>1. Exhausted(lease[j]) \in BOOLEAN
    BY DEF Exhausted
  <2> QED
    BY <1>14, <2>1, ExpireType DEF TypeOK, RecoverLapsed, Reconciled
<1>15. ASSUME NEW w \in Workers, NEW j \in Jobs, NEW lag \in Lags,
              RecoverOther(w, j, lag)
       PROVE  TypeOK'
  <2>1. lease' \in [Jobs -> LeaseType]
    BY <1>15, ReleasedType DEF TypeOK, RecoverOther
  <2>2. recovery' \in [Workers -> [todo : SUBSET Jobs, legacy : SUBSET Jobs]]
    BY <1>15 DEF TypeOK, RecoverOther, Reconciled
  <2> QED
    BY <1>15, <2>1, <2>2 DEF TypeOK, RecoverOther, Reconciled
<1>16. ASSUME NEW w \in Workers, EnterLoop(w) \/ Crash(w)
       PROVE  TypeOK'
  <2>1. run' \in [Workers -> RunType]
    BY <1>16, RestingType DEF TypeOK, Phases, EnterLoop, Crash
  <2>2. recovery' \in [Workers -> [todo : SUBSET Jobs, legacy : SUBSET Jobs]]
    BY <1>16 DEF TypeOK, EnterLoop, Crash, NothingRead
  <2>3. crashes' \in 0..MaxCrashes
    BY <1>16, ConstantsAssumption DEF TypeOK, EnterLoop, Crash
  <2> QED
    BY <1>16, <2>1, <2>2, <2>3 DEF TypeOK, EnterLoop, Crash
<1>17. ASSUME NEW j \in Jobs, CreateVerification(j)
       PROVE  TypeOK'
  BY <1>17, FreshLeaseType DEF TypeOK, CreateVerification, JobStatus
<1>18. ASSUME NEW j \in Jobs, Retry(j)
       PROVE  TypeOK'
  BY <1>18, ConstantsAssumption
  DEF TypeOK, Retry, Requeue, JobStatus, Generations
<1>19. ASSUME NEW r \in Requests, NEW j \in Jobs, RetryCheck(r, j)
       PROVE  TypeOK'
  BY <1>19 DEF TypeOK, RetryCheck
<1>20. ASSUME NEW r \in Requests, RetryWrite(r)
       PROVE  TypeOK'
  <2>1. /\ status' \in [Jobs -> JobStatus]
        /\ result' \in [Jobs -> Generations]
    BY <1>20, ConstantsAssumption
    DEF TypeOK, RetryWrite, Requeue, JobStatus, Generations
  <2>2. retrying' \in [Requests -> Jobs \cup {NoJob}]
    BY <1>20 DEF TypeOK, RetryWrite
  <2> QED
    BY <1>20, <2>1, <2>2 DEF TypeOK, RetryWrite
<1>21. ASSUME Tick
       PROVE  TypeOK'
  <2>1. \A j \in Jobs : Older(lease[j]) \in LeaseType
    BY OlderType DEF TypeOK
  <2> QED
    BY <1>21, <2>1 DEF TypeOK, Tick
<1>22. ASSUME UNCHANGED vars
       PROVE  TypeOK'
  BY <1>22 DEF TypeOK, vars
<1> QED
  BY <1>1, <1>2, <1>3, <1>4, <1>5, <1>6, <1>7, <1>8, <1>9, <1>10, <1>11, <1>12,
     <1>13, <1>14, <1>15, <1>16, <1>17, <1>18, <1>19, <1>20, <1>21, <1>22
  DEF Next, WorkerStep, ApiStep, Poll, Sweep, Heartbeat, Finish, TerminalWrite,
      Recover

-----------------------------------------------------------------------------
(* What every step but a claim and an upload has in common                  *)

Working(w) == run[w].phase \in {"analyzing", "writing"}

\* The counters of a lease stand still, its owner is kept or cleared, its dead
\* letter is kept, and no job disappears.
LeasesCalm ==
  \A k \in Jobs :
    /\ lease'[k].generation = lease[k].generation
    /\ lease'[k].attempts = lease[k].attempts
    /\ lease'[k].owner \in {lease[k].owner, NoWorker}
    /\ lease[k].dead => lease'[k].dead
    /\ status'[k] = "absent" => status[k] = "absent"

\* A worker keeps its claim or drops it.
RunsCalm ==
  \A v \in Workers :
    /\ Busy(v)' => /\ Busy(v)
                   /\ run'[v].job = run[v].job
                   /\ run'[v].generation = run[v].generation
    /\ Working(v)' => Working(v)
    /\ VerdictFits(run'[v])

\* A new outcome is that of an attempt, and comes with the release of the lease
\* or from a worker that reports its own loss.
OutcomesCalm ==
  /\ attempts' = attempts
  /\ outcomes \subseteq outcomes'
  /\ \A o \in outcomes' :
       \/ o \in outcomes
       \/ /\ \E a \in attempts : a.job = o.job /\ a.generation = o.generation
          /\ \/ lease'[o.job].owner = NoWorker
             \/ \E w \in Workers : /\ run[w].phase = "reporting"
                                   /\ run[w].job = o.job
                                   /\ run[w].generation = o.generation

\* The attempt with token g has an outcome after the step.
SettledNext(j, g) == \E o \in outcomes' : o.job = j /\ o.generation = g

\* A running job that stops, or loses its owner, has its attempt settled.
AttemptsCalm ==
  \A k \in Jobs :
    \/ status[k] # "running"
    \/ status'[k] = "running" /\ lease'[k].owner = lease[k].owner
    \/ AttemptOf(k, lease[k].generation) = {}
    \/ SettledNext(k, lease[k].generation)

Calm == LeasesCalm /\ RunsCalm /\ OutcomesCalm /\ AttemptsCalm

\* A step that leaves leases, histories and the status of jobs alone.
LEMMA QuietIsCalm ==
  ASSUME UNCHANGED <<status, attempts, outcomes>>, RunsCalm,
         \A k \in Jobs : /\ lease'[k].generation = lease[k].generation
                         /\ lease'[k].attempts = lease[k].attempts
                         /\ lease'[k].owner = lease[k].owner
                         /\ lease'[k].dead = lease[k].dead
  PROVE  Calm
  BY DEF Calm, LeasesCalm, OutcomesCalm, AttemptsCalm

\* The columns of a new outcome row.
LEMMA OutcomeFields ==
  ASSUME NEW j, NEW g, NEW d, NEW dead
  PROVE  /\ Outcome(j, g, d, dead).job = j
         /\ Outcome(j, g, d, dead).generation = g
         /\ Outcome(j, g, d, dead).disposition = d
  BY DEF Outcome

\* A report adds at most one outcome, of the attempt it names, and afterwards
\* that attempt has one.
LEMMA OutcomesWithEffect ==
  ASSUME NEW j, NEW g, NEW d, NEW dead
  PROVE  /\ outcomes \subseteq OutcomesWith(j, g, d, dead)
         /\ \A o \in OutcomesWith(j, g, d, dead) :
              \/ o \in outcomes
              \/ /\ o.job = j /\ o.generation = g /\ o.disposition = d
                 /\ ~Settled(j, g)
                 /\ AttemptOf(j, g) # {}
         /\ AttemptOf(j, g) # {} =>
              \E o \in OutcomesWith(j, g, d, dead) : o.job = j /\ o.generation = g
<1>1. CASE AttemptOf(j, g) = {} \/ Settled(j, g)
  BY <1>1 DEF OutcomesWith, Settled
<1>2. CASE ~(AttemptOf(j, g) = {} \/ Settled(j, g))
  <2>1. OutcomesWith(j, g, d, dead) = outcomes \cup {Outcome(j, g, d, dead)}
    BY <1>2 DEF OutcomesWith
  <2> QED
    BY <1>2, <2>1, OutcomeFields
<1> QED
  BY <1>1, <1>2

\* An expiry is calm: it settles the attempt whose lease it takes away.
LEMMA ExpireIsCalm ==
  ASSUME TypeOK, ClaimIsKnown, NEW j \in Jobs, NEW dead \in BOOLEAN,
         Expire(j, dead), UNCHANGED run
  PROVE  Calm
<1>1. LeasesCalm /\ lease'[j].owner = NoWorker
  <2>1. /\ Released(lease[j], dead).generation = lease[j].generation
        /\ Released(lease[j], dead).attempts = lease[j].attempts
        /\ Released(lease[j], dead).owner = NoWorker
        /\ lease[j].dead => Released(lease[j], dead).dead
    BY ReleasedType DEF TypeOK
  <2> QED
    BY <2>1 DEF TypeOK, Expire, LeasesCalm
<1>2. RunsCalm
  BY DEF RunsCalm, Busy, Working, ClaimIsKnown,
        VerdictFits
<1>3. OutcomesCalm
  BY <1>1, OutcomesWithEffect DEF Expire, OutcomesCalm, AttemptOf
<1>4. AttemptsCalm
  <2>1. \/ AttemptOf(j, lease[j].generation) = {}
        \/ SettledNext(j, lease[j].generation)
    BY OutcomesWithEffect DEF Expire, SettledNext
  <2>2. \A k \in Jobs \ {j} :
          status'[k] = status[k] /\ lease'[k].owner = lease[k].owner
    BY DEF Expire, TypeOK
  <2> QED
    BY <2>1, <2>2 DEF AttemptsCalm
<1> QED
  BY <1>1, <1>2, <1>3, <1>4 DEF Calm

\* A worker's own terminal write.
LEMMA TerminalIsCalm ==
  ASSUME TypeOK, ClaimIsKnown, ClaimHasAttempt,
         NEW w \in Workers, NEW d, NEW dead \in BOOLEAN,
         Busy(w),
         outcomes' = outcomes \cup
           {Outcome(run[w].job, run[w].generation, d, dead)},
         attempts' = attempts,
         lease[run[w].job].generation = run[w].generation,
         lease' = [lease EXCEPT ![run[w].job] = Released(@, dead)],
         run' = [run EXCEPT ![w] = Resting("idle")],
         NEW s, s # "absent", status' = [status EXCEPT ![run[w].job] = s]
  PROVE  Calm
<1> DEFINE j == run[w].job
<1>0. j \in Jobs
  BY DEF ClaimIsKnown
<1>1. LeasesCalm /\ lease'[j].owner = NoWorker
  <2>1. /\ Released(lease[j], dead).generation = lease[j].generation
        /\ Released(lease[j], dead).attempts = lease[j].attempts
        /\ Released(lease[j], dead).owner = NoWorker
        /\ lease[j].dead => Released(lease[j], dead).dead
    BY <1>0, ReleasedType DEF TypeOK
  <2> QED
    BY <1>0, <2>1 DEF TypeOK, LeasesCalm
<1>2. RunsCalm
  BY DEF TypeOK, RunsCalm, Busy, Working, Resting,
         ClaimIsKnown, VerdictFits
<1>3. OutcomesCalm
  BY <1>1 DEF OutcomesCalm, Outcome, ClaimHasAttempt
<1>4. AttemptsCalm
  <2>1. SettledNext(j, run[w].generation)
    BY OutcomeFields DEF SettledNext
  <2>2. SettledNext(j, lease[j].generation)
    BY <2>1
  <2>3. \A k \in Jobs \ {j} :
          status'[k] = status[k] /\ lease'[k].owner = lease[k].owner
    BY DEF TypeOK
  <2> QED
    BY <2>1, <2>2, <2>3 DEF AttemptsCalm
<1> QED
  BY <1>1, <1>2, <1>3, <1>4 DEF Calm

\* Every step is a claim, an upload or calm.
LEMMA CalmStep ==
  ASSUME TypeOK, ClaimIsKnown, ClaimHasAttempt, [Next]_vars
  PROVE  \/ \E w \in Workers, j \in Jobs, lag \in Lags : Claim(w, j, lag)
         \/ \E j \in Jobs : CreateVerification(j)
         \/ Calm
<1> USE DEF jobVars, historyVars
<1>1. ASSUME NEW w \in Workers, NEW lag \in Lags, Renew(w, lag)
      PROVE  Calm
  <2>1. RunsCalm
    BY <1>1 DEF Renew, RunsCalm, Busy, Working, ClaimIsKnown,
        VerdictFits
  <2> QED
    BY <1>1, <2>1, QuietIsCalm DEF TypeOK, Renew, LeaseType
<1>2. ASSUME NEW w \in Workers, NEW lag \in Lags, LoseLease(w, lag)
      PROVE  Calm
  <2>1. RunsCalm
    BY <1>2
    DEF TypeOK, RunType, LoseLease, RunsCalm, Busy, Working, ClaimIsKnown,
        VerdictFits
  <2> QED
    BY <1>2, <2>1, QuietIsCalm DEF LoseLease
<1>3. ASSUME NEW w \in Workers, NEW verdict \in Verdicts, FinishAnalysis(w, verdict)
      PROVE  Calm
  <2>1. RunsCalm
    BY <1>3
    DEF TypeOK, RunType, FinishAnalysis, Reporting, RunsCalm, Busy, Working,
        ClaimIsKnown, VerdictFits
  <2> QED
    BY <1>3, <2>1, QuietIsCalm DEF FinishAnalysis
<1>4. ASSUME NEW w \in Workers, NEW lag \in Lags, CommitSuccess(w, lag)
      PROVE  Calm
  BY <1>4, TerminalIsCalm DEF CommitSuccess, Fence, Busy
<1>5. ASSUME NEW w \in Workers, CompletionRaises(w)
      PROVE  Calm
  <2>1. RunsCalm
    BY <1>5
    DEF TypeOK, RunType, CompletionRaises, RunsCalm, Busy, Working,
        ClaimIsKnown, VerdictFits, Verdicts
  <2> QED
    BY <1>5, <2>1, QuietIsCalm DEF CompletionRaises
<1>6. ASSUME NEW w \in Workers, NEW lag \in Lags, CommitFailure(w, lag)
      PROVE  Calm
  <2>1. PICK dead \in BOOLEAN :
          /\ outcomes' = outcomes \cup
               {Outcome(run[w].job, run[w].generation, "committed_failure", dead)}
          /\ lease' = [lease EXCEPT ![run[w].job] = Released(@, dead)]
    BY <1>6 DEF CommitFailure
  <2> QED
    BY <1>6, <2>1, TerminalIsCalm DEF CommitFailure, Fence, Busy
<1>7. ASSUME NEW w \in Workers, NEW lag \in Lags, WriteFenced(w, lag)
      PROVE  Calm
  <2>1. RunsCalm
    BY <1>7
    DEF TypeOK, RunType, WriteFenced, Reporting, RunsCalm, Busy, Working,
        ClaimIsKnown, VerdictFits
  <2> QED
    BY <1>7, <2>1, QuietIsCalm DEF WriteFenced
<1>8. ASSUME NEW w \in Workers, ReportLoss(w)
      PROVE  Calm
  <2>1. RunsCalm
    BY <1>8
    DEF TypeOK, ReportLoss, Resting, RunsCalm, Busy, Working, ClaimIsKnown,
        VerdictFits
  <2>2. run[w].job \in Jobs /\ run[w].phase = "reporting"
    BY <1>8 DEF ReportLoss, ClaimIsKnown, Busy
  <2>3. OutcomesCalm
    <3>1. CASE outcomes' = outcomes
      BY <1>8, <3>1 DEF ReportLoss, OutcomesCalm
    <3>2. CASE outcomes' = OutcomesWith(run[w].job, run[w].generation,
                                        run[w].verdict, FALSE)
      <4>0. PICK dead \in BOOLEAN :
              outcomes' = OutcomesWith(run[w].job, run[w].generation,
                                       run[w].verdict, dead)
        BY <3>2
      <4>1. /\ outcomes \subseteq outcomes'
            /\ \A o \in outcomes' :
                 \/ o \in outcomes
                 \/ /\ o.job = run[w].job /\ o.generation = run[w].generation
                    /\ AttemptOf(run[w].job, run[w].generation) # {}
        BY <4>0, OutcomesWithEffect
      <4>2. attempts' = attempts
        BY <1>8 DEF ReportLoss
      <4> QED
        BY <2>2, <3>2, <4>1, <4>2 DEF OutcomesCalm, AttemptOf
    <3> QED
      BY <1>8, <3>1, <3>2 DEF ReportLoss
  <2> QED
    BY <1>8, <2>1, <2>3 DEF ReportLoss, Calm, LeasesCalm, AttemptsCalm
<1>9. ASSUME NEW w \in Workers, NEW j \in Jobs, NEW lag \in Lags, Reap(w, j, lag)
      PROVE  Calm
  <2>1. Exhausted(lease[j]) \in BOOLEAN
    BY DEF Exhausted
  <2> QED
    BY <1>9, <2>1, ExpireIsCalm DEF Reap
<1>10. ASSUME NEW w \in Workers, StartWorker(w) \/ EnterLoop(w) \/ Crash(w)
       PROVE  Calm
  <2>1. RunsCalm
    BY <1>10
    DEF TypeOK, StartWorker, EnterLoop, Crash, Resting, RunsCalm, Busy,
        Working, ClaimIsKnown, VerdictFits
  <2> QED
    BY <1>10, <2>1, QuietIsCalm DEF StartWorker, EnterLoop, Crash
<1>11. ASSUME NEW w \in Workers, SeedLeases(w)
       PROVE  Calm
  <2>1. RunsCalm
    BY <1>11
    DEF TypeOK, SeedLeases, Resting, RunsCalm, Busy, Working, ClaimIsKnown,
        VerdictFits
  <2> QED
    BY <1>11, <2>1, QuietIsCalm DEF TypeOK, SeedLeases, LeaseType
<1>12. ASSUME NEW w \in Workers, NEW j \in Jobs, RecoverLegacy(w, j)
       PROVE  Calm
  BY <1>12, ExpireIsCalm DEF RecoverLegacy, Reconciled
<1>13. ASSUME NEW w \in Workers, NEW j \in Jobs, NEW lag \in Lags,
              RecoverLapsed(w, j, lag)
       PROVE  Calm
  <2>1. Exhausted(lease[j]) \in BOOLEAN
    BY DEF Exhausted
  <2> QED
    BY <1>13, <2>1, ExpireIsCalm DEF RecoverLapsed, Reconciled
<1>14. ASSUME NEW w \in Workers, NEW j \in Jobs, NEW lag \in Lags,
              RecoverOther(w, j, lag)
       PROVE  Calm
  <2>1. RunsCalm /\ OutcomesCalm
    BY <1>14
    DEF RecoverOther, Reconciled, RunsCalm, Busy, Working, OutcomesCalm,
        ClaimIsKnown, VerdictFits
  <2>2. LeasesCalm
    <3>1. \A k \in Jobs :
            lease'[k] = lease[k] \/ lease'[k] = Released(lease[k], FALSE)
      BY <1>14 DEF TypeOK, RecoverOther
    <3>2. status' = status
      BY <1>14 DEF RecoverOther
    <3> QED
      <4>1. \A k \in Jobs :
              /\ Released(lease[k], FALSE).generation = lease[k].generation
              /\ Released(lease[k], FALSE).attempts = lease[k].attempts
              /\ Released(lease[k], FALSE).owner = NoWorker
              /\ lease[k].dead => Released(lease[k], FALSE).dead
        BY ReleasedType DEF TypeOK
      <4> QED
        BY <3>1, <3>2, <4>1 DEF LeasesCalm
  <2>3. AttemptsCalm
    BY <1>14 DEF TypeOK, RecoverOther, AttemptsCalm
  <2> QED
    BY <2>1, <2>2, <2>3 DEF Calm
<1>15. ASSUME NEW j \in Jobs, Retry(j)
       PROVE  Calm
  <2>1. RunsCalm /\ OutcomesCalm
    BY <1>15 DEF Retry, RunsCalm, Busy, Working, OutcomesCalm, ClaimIsKnown,
        VerdictFits
  <2> QED
    BY <1>15, <2>1
    DEF TypeOK, Retry, MayRetry, Requeue, Calm, LeasesCalm, AttemptsCalm
<1>16. ASSUME NEW r \in Requests, NEW j \in Jobs, RetryCheck(r, j)
       PROVE  Calm
  <2>1. RunsCalm
    BY <1>16 DEF RetryCheck, RunsCalm, Busy, Working, ClaimIsKnown,
        VerdictFits
  <2> QED
    BY <1>16, <2>1, QuietIsCalm DEF RetryCheck
<1>17. ASSUME NEW r \in Requests, RetryWrite(r)
       PROVE  Calm
  <2>1. RunsCalm /\ OutcomesCalm
    BY <1>17
    DEF RetryWrite, RunsCalm, Busy, Working, OutcomesCalm, ClaimIsKnown,
        VerdictFits
  <2> QED
    BY <1>17, <2>1
    DEF TypeOK, RetryWrite, Requeue, Calm, LeasesCalm, AttemptsCalm
<1>18. ASSUME Tick
       PROVE  Calm
  <2>1. RunsCalm
    BY <1>18 DEF Tick, RunsCalm, Busy, Working, ClaimIsKnown,
        VerdictFits
  <2>2. ASSUME NEW l \in LeaseType
        PROVE  /\ Older(l).generation = l.generation
               /\ Older(l).attempts = l.attempts
               /\ Older(l).owner = l.owner
               /\ Older(l).dead = l.dead
    BY DEF Older, LeaseType
  <2> QED
    BY <1>18, <2>1, <2>2, QuietIsCalm DEF TypeOK, Tick
<1>19. ASSUME UNCHANGED vars
       PROVE  Calm
  <2>1. RunsCalm
    BY <1>19 DEF vars, RunsCalm, Busy, Working, ClaimIsKnown,
        VerdictFits
  <2> QED
    BY <1>19, <2>1, QuietIsCalm DEF vars
<1> QED
  BY <1>1, <1>2, <1>3, <1>4, <1>5, <1>6, <1>7, <1>8, <1>9, <1>10, <1>11, <1>12,
     <1>13, <1>14, <1>15, <1>16, <1>17, <1>18, <1>19
  DEF Next, WorkerStep, ApiStep, Poll, Sweep, Heartbeat, Finish, TerminalWrite,
      Recover

-----------------------------------------------------------------------------
(* The parts of the invariant, step by step                                 *)

\* Token and attempt count advance together in every step.
LEMMA CountersStep ==
  ASSUME TypeOK, CountersAgree, ClaimIsKnown, ClaimHasAttempt, [Next]_vars
  PROVE  CountersAgree'
<1>1. ASSUME NEW w \in Workers, NEW j \in Jobs, NEW lag \in Lags, Claim(w, j, lag)
      PROVE  CountersAgree'
  BY <1>1 DEF TypeOK, CountersAgree, Claim
<1>2. ASSUME NEW j \in Jobs, CreateVerification(j)
      PROVE  CountersAgree'
  BY <1>2 DEF TypeOK, CountersAgree, CreateVerification, FreshLease
<1>3. CASE Calm
  BY <1>3 DEF CountersAgree, Calm, LeasesCalm
<1> QED
  BY <1>1, <1>2, <1>3, CalmStep

\* Every step keeps the attempt rows in line with the lease counters.
LEMMA HistoryStep ==
  ASSUME TypeOK, CountersAgree, ClaimIsKnown, ClaimHasAttempt,
         AttemptHistoryMatchesLease, [Next]_vars
  PROVE  AttemptHistoryMatchesLease'
<1>1. ASSUME NEW w \in Workers, NEW j \in Jobs, NEW lag \in Lags, Claim(w, j, lag)
      PROVE  AttemptHistoryMatchesLease'
  <2> DEFINE m == lease[j].attempts + 1
             new == [job |-> j, generation |-> lease[j].generation + 1,
                     number |-> m, worker |-> WorkerId[w]]
  <2>1. /\ lease[j].attempts \in Nat
        /\ lease[j].generation = lease[j].attempts
    BY ConstantsAssumption DEF TypeOK, LeaseType, Generations, CountersAgree
  <2>2. /\ attempts' = attempts \cup {new} /\ m \in Nat
        /\ new.job = j /\ new.generation = m /\ new.number = m
    BY <1>1, <2>1 DEF Claim
  <2>3. /\ lease'[j].generation = m /\ lease'[j].attempts = m
        /\ \A k \in Jobs \ {j} : lease'[k] = lease[k]
    BY <1>1, <2>1 DEF TypeOK, Claim
  <2>4. \A a \in attempts : a.job = j => a.number < m /\ a.number \in Nat
    BY <2>1 DEF AttemptHistoryMatchesLease, TypeOK, AttemptType
  <2>5. ASSUME NEW k \in Jobs \ {j}
        PROVE  /\ lease'[k].generation = lease'[k].attempts
               /\ \A n \in 1..lease'[k].attempts :
                    \E a \in attempts' :
                      /\ a.job = k /\ a.number = n
                      /\ \A b \in attempts' : b.job = k /\ b.number = n => b = a
               /\ \A a \in attempts' : a.job = k =>
                    a.generation = a.number /\ a.number <= lease'[k].attempts
    BY <2>2, <2>3 DEF AttemptHistoryMatchesLease
  <2>6. \A n \in 1..m :
          \E a \in attempts' :
            /\ a.job = j /\ a.number = n
            /\ \A b \in attempts' : b.job = j /\ b.number = n => b = a
    <3>1. ASSUME NEW n \in 1..m, n # m
          PROVE  \E a \in attempts' :
                   /\ a.job = j /\ a.number = n
                   /\ \A b \in attempts' : b.job = j /\ b.number = n => b = a
      <4>1. n \in 1..lease[j].attempts
        BY <2>1, <3>1
      <4>2. PICK a \in attempts :
              /\ a.job = j /\ a.number = n
              /\ \A b \in attempts : b.job = j /\ b.number = n => b = a
        BY <4>1 DEF AttemptHistoryMatchesLease
      <4> QED
        BY <2>2, <3>1, <4>2
    <3>2. \A b \in attempts' : b.job = j /\ b.number = m => b = new
      BY <2>1, <2>2, <2>4
    <3>3. \E a \in attempts' :
            /\ a.job = j /\ a.number = m
            /\ \A b \in attempts' : b.job = j /\ b.number = m => b = a
      <4> HIDE DEF m, new
      <4> QED
        BY <2>2, <3>2
    <3> HIDE DEF m, new
    <3> QED
      BY <3>1, <3>3
  <2>7. \A a \in attempts' : a.job = j => a.generation = a.number /\ a.number <= m
    BY <2>1, <2>2, <2>4 DEF AttemptHistoryMatchesLease
  <2> QED
    BY <2>3, <2>5, <2>6, <2>7 DEF AttemptHistoryMatchesLease
<1>2. ASSUME NEW j \in Jobs, CreateVerification(j)
      PROVE  AttemptHistoryMatchesLease'
  <2>1. /\ attempts' = attempts
        /\ \A k \in Jobs : /\ lease'[k].generation = lease[k].generation
                            /\ lease'[k].attempts = lease[k].attempts
    BY <1>2
    DEF TypeOK, CreateVerification, historyVars, FreshLease, CountersAgree
  <2> QED
    BY <2>1 DEF AttemptHistoryMatchesLease
<1>3. CASE Calm
  BY <1>3 DEF AttemptHistoryMatchesLease, Calm, LeasesCalm, OutcomesCalm
<1> QED
  BY <1>1, <1>2, <1>3, CalmStep

\* No token of a job exceeds the one in its lease.
LEMMA TokensBounded ==
  ASSUME TypeOK, CountersAgree, AttemptHistoryMatchesLease, ClaimHasAttempt,
         OutcomeHasAttempt
  PROVE  /\ \A w \in Workers : Busy(w) /\ run[w].job \in Jobs =>
              run[w].generation <= lease[run[w].job].generation
         /\ \A o \in outcomes : o.generation <= lease[o.job].generation
         /\ \A a \in attempts : a.generation <= lease[a.job].generation
         /\ \A j \in Jobs : lease[j].generation \in Nat
<1>1. \A a \in attempts : a.job \in Jobs /\ a.generation <= lease[a.job].generation
  BY DEF TypeOK, AttemptType, CountersAgree, AttemptHistoryMatchesLease
<1>2. \A j \in Jobs : lease[j].generation \in Nat
  BY ConstantsAssumption DEF TypeOK, LeaseType, Generations
<1> QED
  BY <1>1, <1>2 DEF ClaimHasAttempt, OutcomeHasAttempt

\* Attempt rows are never deleted, so a claim keeps the row it left.
LEMMA ClaimHasAttemptStep ==
  ASSUME TypeOK, ClaimIsKnown, ClaimHasAttempt, [Next]_vars
  PROVE  ClaimHasAttempt'
<1>1. ASSUME NEW w \in Workers, NEW j \in Jobs, NEW lag \in Lags, Claim(w, j, lag)
      PROVE  ClaimHasAttempt'
  <2>1. \A v \in Workers \ {w} : run'[v] = run[v]
    BY <1>1 DEF TypeOK, Claim
  <2>2. attempts \subseteq attempts'
    BY <1>1 DEF Claim
  <2>3. \E a \in attempts' : /\ a.job = run'[w].job
                             /\ a.generation = run'[w].generation
                             /\ a.worker = WorkerId[w]
    <3> DEFINE new == [job |-> j, generation |-> lease[j].generation + 1,
                       number |-> lease[j].attempts + 1, worker |-> WorkerId[w]]
    <3>1. new \in attempts'
      BY <1>1 DEF Claim
    <3>2. run'[w].job = j /\ run'[w].generation = lease[j].generation + 1
      BY <1>1 DEF TypeOK, Claim
    <3>3. /\ new.job = run'[w].job
          /\ new.generation = run'[w].generation
          /\ new.worker = WorkerId[w]
      BY <3>2
    <3> HIDE DEF new
    <3> QED
      BY <3>1, <3>3
  <2> QED
    BY <2>1, <2>2, <2>3 DEF ClaimHasAttempt, Busy
<1>2. ASSUME NEW j \in Jobs, CreateVerification(j)
      PROVE  ClaimHasAttempt'
  BY <1>2 DEF CreateVerification, historyVars, ClaimHasAttempt, Busy
<1>3. CASE Calm
  BY <1>3 DEF ClaimHasAttempt, Calm, RunsCalm, OutcomesCalm
<1> QED
  BY <1>1, <1>2, <1>3, CalmStep

\* A new claim takes a token above every token that is out.
LEMMA TokensStep ==
  ASSUME TypeOK, CountersAgree, ClaimIsKnown, AttemptHistoryMatchesLease,
         ClaimHasAttempt, OutcomeHasAttempt, TokensDiffer, [Next]_vars
  PROVE  TokensDiffer'
<1>1. ASSUME NEW w \in Workers, NEW j \in Jobs, NEW lag \in Lags, Claim(w, j, lag)
      PROVE  TokensDiffer'
  <2>1. /\ \A v \in Workers \ {w} : run'[v] = run[v]
        /\ run'[w].job = j
        /\ run'[w].generation = lease[j].generation + 1
    BY <1>1 DEF TypeOK, Claim
  <2>2. \A v \in Workers : Busy(v) /\ run[v].job = j =>
          run[v].generation # lease[j].generation + 1
    BY TokensBounded DEF ClaimIsKnown
  <2> QED
    BY <2>1, <2>2 DEF TokensDiffer, Busy
<1>2. ASSUME NEW j \in Jobs, CreateVerification(j)
      PROVE  TokensDiffer'
  BY <1>2 DEF CreateVerification, TokensDiffer, Busy
<1>3. CASE Calm
  BY <1>3 DEF TokensDiffer, Calm, RunsCalm
<1> QED
  BY <1>1, <1>2, <1>3, CalmStep

\* No step writes an outcome of an attempt that does not exist.
LEMMA OutcomeHasAttemptStep ==
  ASSUME TypeOK, ClaimIsKnown, ClaimHasAttempt, OutcomeHasAttempt, [Next]_vars
  PROVE  OutcomeHasAttempt'
<1>1. ASSUME NEW w \in Workers, NEW j \in Jobs, NEW lag \in Lags, Claim(w, j, lag)
      PROVE  OutcomeHasAttempt'
  <2>1. attempts \subseteq attempts' /\ outcomes' = outcomes
    BY <1>1 DEF Claim
  <2> QED
    BY <2>1 DEF OutcomeHasAttempt
<1>2. ASSUME NEW j \in Jobs, CreateVerification(j)
      PROVE  OutcomeHasAttempt'
  BY <1>2 DEF CreateVerification, historyVars, OutcomeHasAttempt
<1>3. CASE Calm
  BY <1>3 DEF OutcomeHasAttempt, Calm, OutcomesCalm
<1> QED
  BY <1>1, <1>2, <1>3, CalmStep

\* While a claim is the current one nobody else settles its attempt.
LEMMA CurrentClaimStep ==
  ASSUME TypeOK, CountersAgree, ClaimIsKnown, AttemptHistoryMatchesLease,
         ClaimHasAttempt, OutcomeHasAttempt, TokensDiffer, CurrentClaimIsOpen,
         [Next]_vars
  PROVE  CurrentClaimIsOpen'
<1>1. ASSUME NEW w \in Workers, NEW j \in Jobs, NEW lag \in Lags, Claim(w, j, lag)
      PROVE  CurrentClaimIsOpen'
  <2>1. /\ \A v \in Workers \ {w} : run'[v] = run[v]
        /\ run'[w].job = j
        /\ run'[w].generation = lease[j].generation + 1
        /\ lease'[j].generation = lease[j].generation + 1
        /\ \A k \in Jobs \ {j} : lease'[k] = lease[k]
        /\ outcomes' = outcomes
    BY <1>1 DEF TypeOK, Claim
  <2>2. \A o \in outcomes : o.job = j => o.generation # lease[j].generation + 1
    BY TokensBounded
  <2>3. ASSUME NEW v \in Workers \ {w}, Current(v)'
        PROVE  Current(v) /\ run[v].job # j
    <3>1. Busy(v) /\ run[v].job \in Jobs
      BY <2>1, <2>3 DEF Current, Busy, ClaimIsKnown
    <3>2. run[v].job # j
      BY <2>1, <2>3, <3>1, TokensBounded DEF Current
    <3> QED
      BY <2>1, <2>3, <3>1, <3>2 DEF Current
  <2> QED
    BY <2>1, <2>2, <2>3 DEF CurrentClaimIsOpen, Settled
<1>2. ASSUME NEW j \in Jobs, CreateVerification(j)
      PROVE  CurrentClaimIsOpen'
  <2>1. /\ run' = run /\ outcomes' = outcomes
        /\ lease'[j].owner = NoWorker
        /\ \A k \in Jobs \ {j} : lease'[k] = lease[k]
    BY <1>2 DEF TypeOK, CreateVerification, historyVars, FreshLease
  <2>2. ASSUME NEW v \in Workers, Current(v)'
        PROVE  Current(v)
    <3>1. run[v].job \in Jobs
      BY <2>1, <2>2 DEF Current, Busy, ClaimIsKnown
    <3> QED
      BY <2>1, <2>2, <3>1, ConstantsAssumption DEF Current
  <2> QED
    BY <2>1, <2>2 DEF CurrentClaimIsOpen, Settled
<1>3. CASE Calm
  <2>1. ASSUME NEW v \in Workers, Current(v)'
        PROVE  ~(\E o \in outcomes' : /\ o.job = run'[v].job
                                       /\ o.generation = run'[v].generation)
    <3>1. /\ Working(v) /\ Busy(v)
          /\ run'[v].job = run[v].job /\ run'[v].generation = run[v].generation
          /\ run[v].job \in Jobs
      BY <1>3, <2>1 DEF Calm, RunsCalm, Current, Working, Busy, ClaimIsKnown
    <3>2. lease'[run[v].job].owner = WorkerId[v]
      BY <2>1, <3>1 DEF Current
    <3>3. Current(v)
      BY <1>3, <2>1, <3>1, <3>2, ConstantsAssumption
      DEF Calm, LeasesCalm, Current, Working
    <3>4. ASSUME NEW o \in outcomes', o.job = run[v].job,
                 o.generation = run[v].generation
          PROVE  FALSE
      <4>1. o \notin outcomes
        BY <3>3, <3>4 DEF CurrentClaimIsOpen, Settled
      <4>2. lease'[o.job].owner # NoWorker
        BY <3>2, <3>4, ConstantsAssumption
      <4>3. PICK w \in Workers : /\ run[w].phase = "reporting"
                                 /\ run[w].job = o.job
                                 /\ run[w].generation = o.generation
        BY <1>3, <4>1, <4>2 DEF Calm, OutcomesCalm
      <4> QED
        BY <3>1, <3>4, <4>3 DEF TokensDiffer, Busy, Working
    <3> QED
      BY <3>1, <3>4
  <2> QED
    BY <2>1 DEF CurrentClaimIsOpen, Settled
<1> QED
  BY <1>1, <1>2, <1>3, CalmStep

\* A step that ends the current attempt of a job settles it.
LEMMA UnsettledStep ==
  ASSUME TypeOK, CountersAgree, ClaimIsKnown, AttemptHistoryMatchesLease,
         ClaimHasAttempt, OutcomeHasAttempt, UnsettledAttemptIsCurrent,
         [Next]_vars
  PROVE  UnsettledAttemptIsCurrent'
<1>1. ASSUME NEW w \in Workers, NEW j \in Jobs, NEW lag \in Lags, Claim(w, j, lag)
      PROVE  UnsettledAttemptIsCurrent'
  <2> DEFINE new == [job |-> j, generation |-> lease[j].generation + 1,
                     number |-> lease[j].attempts + 1, worker |-> WorkerId[w]]
  <2>1. /\ attempts' = attempts \cup {new} /\ outcomes' = outcomes
        /\ status'[j] = "running"
        /\ lease'[j].generation = lease[j].generation + 1
        /\ lease'[j].owner = WorkerId[w]
        /\ \A k \in Jobs \ {j} : lease'[k] = lease[k] /\ status'[k] = status[k]
    BY <1>1 DEF TypeOK, Claim
  <2>2. \A a \in attempts : a.job = j => Settled(a.job, a.generation)
    BY <1>1 DEF Claim, Claimable, UnsettledAttemptIsCurrent
  <2>3. ASSUME NEW a \in attempts', ~Settled(a.job, a.generation)
        PROVE  /\ status'[a.job] = "running"
               /\ lease'[a.job].generation = a.generation
               /\ lease'[a.job].owner = a.worker
    <3>1. CASE a \in attempts
      BY <2>1, <2>2, <2>3, <3>1
      DEF UnsettledAttemptIsCurrent, TypeOK, AttemptType
    <3>2. CASE a = new
      BY <2>1, <3>2
    <3> QED
      BY <2>1, <3>1, <3>2
  <2> QED
    BY <2>1, <2>3 DEF UnsettledAttemptIsCurrent, Settled
<1>2. ASSUME NEW j \in Jobs, CreateVerification(j)
      PROVE  UnsettledAttemptIsCurrent'
  <2>1. /\ attempts' = attempts /\ outcomes' = outcomes
        /\ \A k \in Jobs \ {j} : lease'[k] = lease[k] /\ status'[k] = status[k]
    BY <1>2 DEF TypeOK, CreateVerification, historyVars
  <2>2. \A a \in attempts : ~Settled(a.job, a.generation) => a.job # j
    BY <1>2 DEF CreateVerification, UnsettledAttemptIsCurrent
  <2> QED
    BY <2>1, <2>2 DEF UnsettledAttemptIsCurrent, Settled, TypeOK, AttemptType
<1>3. CASE Calm
  <2>1. attempts' = attempts /\ outcomes \subseteq outcomes'
    BY <1>3 DEF Calm, OutcomesCalm
  <2>2. ASSUME NEW a \in attempts, ~SettledNext(a.job, a.generation)
        PROVE  /\ status'[a.job] = "running"
               /\ lease'[a.job].generation = a.generation
               /\ lease'[a.job].owner = a.worker
    <3>1. a.job \in Jobs
      BY DEF TypeOK, AttemptType
    <3>2. /\ status[a.job] = "running"
          /\ lease[a.job].generation = a.generation
          /\ lease[a.job].owner = a.worker
      BY <2>1, <2>2 DEF SettledNext, Settled, UnsettledAttemptIsCurrent
    <3>3. AttemptOf(a.job, lease[a.job].generation) # {}
      BY <3>2 DEF AttemptOf
    <3> QED
      BY <1>3, <2>2, <3>1, <3>2, <3>3 DEF Calm, AttemptsCalm, LeasesCalm
  <2> QED
    BY <2>1, <2>2 DEF UnsettledAttemptIsCurrent, Settled, SettledNext
<1> QED
  BY <1>1, <1>2, <1>3, CalmStep

\* A worker keeps its job and token, and a verdict that fits its phase.
LEMMA ClaimIsKnownStep ==
  ASSUME TypeOK, CountersAgree, ClaimIsKnown, ClaimHasAttempt, [Next]_vars
  PROVE  ClaimIsKnown'
<1>1. ASSUME NEW w \in Workers, NEW j \in Jobs, NEW lag \in Lags, Claim(w, j, lag)
      PROVE  ClaimIsKnown'
  <2>1. lease[j].generation + 1 \in 1..MaxAttempts
    BY <1>1, ConstantsAssumption
    DEF TypeOK, CountersAgree, Claim, Claimable, Exhausted, LeaseType,
        Generations
  <2>2. /\ run'[w].phase = "analyzing"
        /\ run'[w].job = j
        /\ run'[w].generation = lease[j].generation + 1
        /\ \A v \in Workers \ {w} : run'[v] = run[v]
    BY <1>1 DEF TypeOK, Claim
  <2> QED
    BY <2>1, <2>2 DEF ClaimIsKnown, Busy, VerdictFits
<1>2. ASSUME NEW j \in Jobs, CreateVerification(j)
      PROVE  ClaimIsKnown'
  BY <1>2 DEF CreateVerification, ClaimIsKnown, Busy
<1>3. CASE Calm
  BY <1>3 DEF Calm, RunsCalm, ClaimIsKnown
<1> QED
  BY <1>1, <1>2, <1>3, CalmStep

\* Lease and job status change together in every step.
LEMMA LeaseFitsStatusStep ==
  ASSUME TypeOK, ClaimIsKnown, LeaseFitsStatus, [Next]_vars
  PROVE  LeaseFitsStatus'
<1> USE DEF jobVars, historyVars
<1>1. ASSUME NEW w \in Workers, NEW j \in Jobs, NEW lag \in Lags, Claim(w, j, lag)
      PROVE  LeaseFitsStatus'
  <2>1. WorkerId[w] # NoWorker /\ Deadline(lag) # NoTime
    BY ConstantsAssumption, DeadlineType
  <2> QED
    BY <1>1, <2>1 DEF TypeOK, Claim, LeaseFitsStatus
<1>2. ASSUME NEW w \in Workers, NEW lag \in Lags, Renew(w, lag)
      PROVE  LeaseFitsStatus'
  <2>1. /\ run[w].job \in Jobs
        /\ lease[run[w].job].owner # NoWorker
        /\ Deadline(lag) # NoTime
    BY <1>2, ConstantsAssumption, DeadlineType
    DEF Renew, Fence, ClaimIsKnown, Busy
  <2>2. /\ lease'[run[w].job].owner = lease[run[w].job].owner
        /\ lease'[run[w].job].ttl = Deadline(lag)
        /\ \A k \in Jobs \ {run[w].job} : lease'[k] = lease[k]
        /\ status' = status
    BY <1>2, <2>1 DEF TypeOK, LeaseType, Renew
  <2> QED
    BY <2>1, <2>2 DEF LeaseFitsStatus
<1>3. ASSUME NEW j \in Jobs, NEW dead \in BOOLEAN, NEW s, s # "running",
             lease' = [lease EXCEPT ![j] = Released(@, dead)],
             status' = [status EXCEPT ![j] = s]
      PROVE  LeaseFitsStatus'
  <2>1. /\ lease'[j].owner = NoWorker /\ lease'[j].ttl = NoTime
        /\ status'[j] = s
        /\ \A k \in Jobs \ {j} : lease'[k] = lease[k] /\ status'[k] = status[k]
    BY <1>3, ReleasedType DEF TypeOK
  <2> QED
    BY <1>3, <2>1 DEF LeaseFitsStatus
<1>4. ASSUME NEW w \in Workers, NEW lag \in Lags,
             CommitSuccess(w, lag) \/ CommitFailure(w, lag)
      PROVE  LeaseFitsStatus'
  <2>1. run[w].job \in Jobs
    BY <1>4 DEF CommitSuccess, CommitFailure, ClaimIsKnown, Busy
  <2>2. PICK dead \in BOOLEAN :
          lease' = [lease EXCEPT ![run[w].job] = Released(@, dead)]
    BY <1>4 DEF CommitSuccess, CommitFailure
  <2> QED
    BY <1>3, <1>4, <2>1, <2>2 DEF CommitSuccess, CommitFailure
<1>5. ASSUME NEW j \in Jobs, NEW dead \in BOOLEAN, Expire(j, dead)
      PROVE  LeaseFitsStatus'
  <2> DEFINE s == IF dead THEN "failed" ELSE "queued"
  <2>1. s # "running" /\ status' = [status EXCEPT ![j] = s]
    BY <1>5 DEF Expire
  <2> HIDE DEF s
  <2> QED
    BY <1>3, <1>5, <2>1 DEF Expire
<1>6. ASSUME NEW w \in Workers, NEW j \in Jobs, NEW lag \in Lags,
             Reap(w, j, lag) \/ RecoverLegacy(w, j) \/ RecoverLapsed(w, j, lag)
      PROVE  LeaseFitsStatus'
  <2>1. Exhausted(lease[j]) \in BOOLEAN
    BY DEF Exhausted
  <2> QED
    BY <1>5, <1>6, <2>1 DEF Reap, RecoverLegacy, RecoverLapsed
<1>7. ASSUME NEW w \in Workers, NEW j \in Jobs, NEW lag \in Lags,
             RecoverOther(w, j, lag)
      PROVE  LeaseFitsStatus'
  <2>1. CASE status[j] = "queued"
    <3>1. /\ lease'[j].owner = NoWorker /\ lease'[j].ttl = NoTime
          /\ \A k \in Jobs \ {j} : lease'[k] = lease[k]
          /\ status' = status
      <4>1. /\ lease'[j] = Released(lease[j], FALSE)
            /\ \A k \in Jobs \ {j} : lease'[k] = lease[k]
            /\ status' = status
        BY <1>7, <2>1 DEF TypeOK, RecoverOther
      <4>2. /\ Released(lease[j], FALSE).owner = NoWorker
            /\ Released(lease[j], FALSE).ttl = NoTime
        BY ReleasedType DEF TypeOK
      <4> QED
        BY <4>1, <4>2
    <3> QED
      BY <2>1, <3>1 DEF LeaseFitsStatus
  <2>2. CASE status[j] # "queued"
    BY <1>7, <2>2 DEF TypeOK, RecoverOther, LeaseFitsStatus
  <2> QED
    BY <2>1, <2>2
<1>8. ASSUME NEW w \in Workers, SeedLeases(w)
      PROVE  LeaseFitsStatus'
  BY <1>8 DEF TypeOK, LeaseType, SeedLeases, LeaseFitsStatus
<1>9. ASSUME NEW j \in Jobs, CreateVerification(j)
      PROVE  LeaseFitsStatus'
  BY <1>9 DEF TypeOK, CreateVerification, FreshLease, LeaseFitsStatus
<1>10. ASSUME NEW j \in Jobs, Requeue(j), status[j] = "failed", lease' = lease
       PROVE  LeaseFitsStatus'
  BY <1>10 DEF TypeOK, Requeue, LeaseFitsStatus
<1>11. ASSUME NEW j \in Jobs, Retry(j)
       PROVE  LeaseFitsStatus'
  BY <1>10, <1>11 DEF Retry, MayRetry
<1>12. ASSUME NEW r \in Requests, RetryWrite(r)
       PROVE  LeaseFitsStatus'
  <2>1. retrying[r] \in Jobs
    BY <1>12 DEF TypeOK, RetryWrite
  <2>2. CASE status[retrying[r]] = "failed"
    BY <1>10, <1>12, <2>1, <2>2 DEF RetryWrite
  <2>3. CASE status[retrying[r]] # "failed"
    BY <1>12, <2>3 DEF RetryWrite, LeaseFitsStatus
  <2> QED
    BY <2>2, <2>3
<1>13. ASSUME Tick
       PROVE  LeaseFitsStatus'
  <2>1. ASSUME NEW l \in LeaseType
        PROVE  /\ Older(l).owner = l.owner
               /\ Older(l).attempts = l.attempts
               /\ Older(l).ttl = NoTime <=> l.ttl = NoTime
    <3>1. l.ttl # NoTime => l.ttl - 1 # NoTime
      BY ConstantsAssumption DEF LeaseType
    <3> QED
      BY <3>1 DEF Older, LeaseType
  <2> QED
    BY <1>13, <2>1 DEF TypeOK, Tick, LeaseFitsStatus
<1>14. ASSUME UNCHANGED <<status, lease>>
       PROVE  LeaseFitsStatus'
  BY <1>14 DEF LeaseFitsStatus
<1>15. ASSUME NEW w \in Workers, NEW lag \in Lags,
              \/ LoseLease(w, lag) \/ CompletionRaises(w) \/ WriteFenced(w, lag)
              \/ ReportLoss(w) \/ StartWorker(w) \/ EnterLoop(w) \/ Crash(w)
              \/ \E verdict \in Verdicts : FinishAnalysis(w, verdict)
       PROVE  LeaseFitsStatus'
  BY <1>14, <1>15
  DEF LoseLease, CompletionRaises, WriteFenced, ReportLoss, StartWorker, EnterLoop,
      Crash, FinishAnalysis
<1>16. ASSUME NEW r \in Requests, NEW j \in Jobs, RetryCheck(r, j)
       PROVE  LeaseFitsStatus'
  BY <1>14, <1>16 DEF RetryCheck
<1>17. Lags # {}
  BY ConstantsAssumption DEF Lags
<1>18. CASE UNCHANGED vars
  BY <1>14, <1>18 DEF vars
<1> QED
  BY <1>1, <1>2, <1>4, <1>6, <1>7, <1>8, <1>9, <1>11, <1>12, <1>13, <1>15, <1>16,
     <1>17, <1>18
  DEF Next, WorkerStep, ApiStep, Poll, Sweep, Heartbeat, Finish, TerminalWrite,
      Recover

\* One job of BudgetIsKept.
JobInBudget(j) ==
  /\ lease[j].dead => status[j] = "failed"
  /\ status[j] = "queued" => ~Exhausted(lease[j])

\* The expiry of a lease keeps the budget when an exhausted job is not requeued.
LEMMA ExpireInBudget ==
  ASSUME TypeOK, NEW j \in Jobs, NEW dead \in BOOLEAN, Expire(j, dead),
         status[j] = "running", JobInBudget(j),
         ~dead => ~Exhausted(lease[j])
  PROVE  /\ JobInBudget(j)'
         /\ \A k \in Jobs \ {j} : lease'[k] = lease[k] /\ status'[k] = status[k]
<1>1. /\ lease'[j].attempts = lease[j].attempts
      /\ lease'[j].dead = (lease[j].dead \/ dead)
      /\ ~lease[j].dead
  BY ReleasedType DEF TypeOK, Expire, JobInBudget
<1>2. status'[j] = IF dead THEN "failed" ELSE "queued"
  BY DEF TypeOK, Expire
<1>3. \A k \in Jobs \ {j} : lease'[k] = lease[k] /\ status'[k] = status[k]
  BY DEF TypeOK, Expire
<1> QED
  BY <1>1, <1>2, <1>3 DEF JobInBudget, Exhausted

\* Where the retry handler is atomic, no step queues an exhausted job or takes
\* a dead letter back.
LEMMA BudgetStep ==
  ASSUME TypeOK, ClaimIsKnown, LeaseFitsStatus, BudgetIsKept, AtomicRetry,
         [Next]_vars
  PROVE  BudgetIsKept'
<1> USE DEF jobVars, historyVars
<1>1. /\ \A r \in Requests : retrying[r] = NoJob
      /\ \A j \in Jobs : JobInBudget(j)
  BY DEF BudgetIsKept, JobInBudget
<1>2. ASSUME UNCHANGED retrying, \A j \in Jobs : JobInBudget(j)'
      PROVE  BudgetIsKept'
  BY <1>1, <1>2 DEF BudgetIsKept, JobInBudget
<1>3. ASSUME NEW j \in Jobs, JobInBudget(j)', UNCHANGED retrying,
             \A k \in Jobs \ {j} : lease'[k] = lease[k] /\ status'[k] = status[k]
      PROVE  BudgetIsKept'
  <2>1. \A k \in Jobs \ {j} : JobInBudget(k)'
    BY <1>1, <1>3 DEF JobInBudget, Exhausted
  <2> QED
    BY <1>2, <1>3, <2>1
<1>4. ASSUME NEW w \in Workers, NEW j \in Jobs, NEW lag \in Lags, Claim(w, j, lag)
      PROVE  BudgetIsKept'
  BY <1>3, <1>4 DEF TypeOK, Claim, JobInBudget
<1>5. ASSUME NEW w \in Workers, NEW lag \in Lags, Renew(w, lag)
      PROVE  BudgetIsKept'
  <2>1. run[w].job \in Jobs
    BY <1>5 DEF Renew, ClaimIsKnown, Busy
  <2>2. \A k \in Jobs : /\ lease'[k].dead = lease[k].dead
                        /\ lease'[k].attempts = lease[k].attempts
                        /\ status'[k] = status[k]
    BY <1>5, <2>1 DEF TypeOK, LeaseType, Renew
  <2> QED
    BY <1>1, <1>2, <1>5, <2>2 DEF Renew, JobInBudget, Exhausted
<1>6. ASSUME NEW w \in Workers, NEW lag \in Lags,
             CommitSuccess(w, lag) \/ CommitFailure(w, lag)
      PROVE  BudgetIsKept'
  <2> DEFINE j == run[w].job
  <2>1. j \in Jobs /\ ~lease[j].dead
    BY <1>6 DEF CommitSuccess, CommitFailure, Fence, ClaimIsKnown, Busy
  <2>2. /\ lease'[j].dead => status'[j] = "failed"
        /\ status'[j] # "queued"
    <3>1. CASE CommitSuccess(w, lag)
      <4>1. /\ lease'[j] = Released(lease[j], FALSE)
            /\ status'[j] = "needs_review"
        BY <2>1, <3>1 DEF TypeOK, CommitSuccess
      <4>2. Released(lease[j], FALSE).dead = (lease[j].dead \/ FALSE)
        BY <2>1, ReleasedType DEF TypeOK
      <4> QED
        BY <2>1, <4>1, <4>2
    <3>2. CASE CommitFailure(w, lag)
      BY <2>1, <3>2 DEF TypeOK, CommitFailure
    <3> QED
      BY <1>6, <3>1, <3>2
  <2>3. /\ \A k \in Jobs \ {j} : lease'[k] = lease[k] /\ status'[k] = status[k]
        /\ UNCHANGED retrying
    BY <1>6 DEF TypeOK, CommitSuccess, CommitFailure
  <2> HIDE DEF j
  <2> QED
    BY <1>3, <2>1, <2>2, <2>3 DEF JobInBudget
<1>7. ASSUME NEW w \in Workers, NEW j \in Jobs, NEW lag \in Lags,
             Reap(w, j, lag) \/ RecoverLapsed(w, j, lag)
      PROVE  BudgetIsKept'
  <2>1. Exhausted(lease[j]) \in BOOLEAN
    BY DEF Exhausted
  <2>2. /\ Expire(j, Exhausted(lease[j])) /\ status[j] = "running"
        /\ UNCHANGED retrying
    BY <1>7 DEF Reap, RecoverLapsed, LapsedAtStartup, Reconciled
  <2> QED
    BY <1>1, <1>3, <2>1, <2>2, ExpireInBudget
<1>8. ASSUME NEW w \in Workers, NEW j \in Jobs, RecoverLegacy(w, j)
      PROVE  BudgetIsKept'
  <2>1. /\ Expire(j, FALSE) /\ status[j] = "running" /\ UNCHANGED retrying
        /\ lease[j].owner = NoWorker
    BY <1>8 DEF RecoverLegacy, OrphanedLegacy, Reconciled
  <2>2. ~Exhausted(lease[j])
    BY <2>1, ConstantsAssumption DEF LeaseFitsStatus, Exhausted
  <2> QED
    BY <1>1, <1>3, <2>1, <2>2, ExpireInBudget
<1>9. ASSUME NEW w \in Workers, NEW j \in Jobs, NEW lag \in Lags,
             RecoverOther(w, j, lag)
      PROVE  BudgetIsKept'
  <2>1. /\ \A k \in Jobs :
             lease'[k] = lease[k] \/ lease'[k] = Released(lease[k], FALSE)
        /\ UNCHANGED <<status, retrying>>
    BY <1>9 DEF TypeOK, RecoverOther, Reconciled
  <2>2. \A k \in Jobs : /\ lease'[k].dead = lease[k].dead
                        /\ lease'[k].attempts = lease[k].attempts
    <3>1. \A k \in Jobs :
            /\ Released(lease[k], FALSE).dead = (lease[k].dead \/ FALSE)
            /\ Released(lease[k], FALSE).attempts = lease[k].attempts
      BY ReleasedType DEF TypeOK
    <3>2. \A k \in Jobs : lease[k].dead \in BOOLEAN
      BY DEF TypeOK, LeaseType
    <3> QED
      BY <2>1, <3>1, <3>2
  <2> QED
    BY <1>1, <1>2, <2>1, <2>2 DEF JobInBudget, Exhausted
<1>10. ASSUME NEW w \in Workers, SeedLeases(w)
       PROVE  BudgetIsKept'
  <2>1. \A k \in Jobs : /\ lease'[k].dead = lease[k].dead
                        /\ lease'[k].attempts = lease[k].attempts
                        /\ status'[k] = status[k]
    BY <1>10 DEF TypeOK, LeaseType, SeedLeases
  <2> QED
    BY <1>1, <1>2, <1>10, <2>1 DEF SeedLeases, JobInBudget, Exhausted
<1>11. ASSUME NEW j \in Jobs, CreateVerification(j)
       PROVE  BudgetIsKept'
  BY <1>3, <1>11, ConstantsAssumption
  DEF TypeOK, CreateVerification, FreshLease, JobInBudget, Exhausted
<1>12. ASSUME NEW j \in Jobs, Retry(j)
       PROVE  BudgetIsKept'
  BY <1>3, <1>12 DEF TypeOK, Retry, MayRetry, Requeue, JobInBudget, Exhausted
<1>13. ASSUME NEW r \in Requests,
              RetryWrite(r) \/ \E j \in Jobs : RetryCheck(r, j)
       PROVE  BudgetIsKept'
  BY <1>1, <1>13 DEF RetryWrite, RetryCheck
<1>14. ASSUME Tick
       PROVE  BudgetIsKept'
  <2>1. ASSUME NEW l \in LeaseType
        PROVE  Older(l).dead = l.dead /\ Older(l).attempts = l.attempts
    BY DEF Older, LeaseType
  <2> QED
    BY <1>1, <1>2, <1>14, <2>1 DEF TypeOK, Tick, JobInBudget, Exhausted
<1>15. ASSUME UNCHANGED <<status, lease, retrying>>
       PROVE  BudgetIsKept'
  BY <1>15 DEF BudgetIsKept, Exhausted
<1>16. ASSUME NEW w \in Workers, NEW lag \in Lags,
              \/ LoseLease(w, lag) \/ CompletionRaises(w) \/ WriteFenced(w, lag)
              \/ ReportLoss(w) \/ StartWorker(w) \/ EnterLoop(w) \/ Crash(w)
              \/ \E verdict \in Verdicts : FinishAnalysis(w, verdict)
       PROVE  BudgetIsKept'
  BY <1>15, <1>16
  DEF LoseLease, CompletionRaises, WriteFenced, ReportLoss, StartWorker, EnterLoop,
      Crash, FinishAnalysis
<1>17. Lags # {}
  BY ConstantsAssumption DEF Lags
<1>18. CASE UNCHANGED vars
  BY <1>15, <1>18 DEF vars
<1> QED
  BY <1>4, <1>5, <1>6, <1>7, <1>8, <1>9, <1>10, <1>11, <1>12, <1>13, <1>14, <1>16,
     <1>17, <1>18
  DEF Next, WorkerStep, ApiStep, Poll, Sweep, Heartbeat, Finish, TerminalWrite,
      Recover

-----------------------------------------------------------------------------
(* The theorems                                                             *)

\* Every reachable state of the queue satisfies the strengthened invariant,
\* from which the theorems below follow.
THEOREM LeaseInvariant == Spec => []LeaseInv
<1>1. LeaseInv /\ [Next]_vars => LeaseInv'
  <2> SUFFICES ASSUME LeaseInv, [Next]_vars PROVE LeaseInv'
    OBVIOUS
  <2> USE DEF LeaseInv
  <2>1. TypeOK' /\ CountersAgree' /\ ClaimIsKnown' /\ ClaimHasAttempt'
    BY TypeStep, CountersStep, ClaimIsKnownStep, ClaimHasAttemptStep
  <2>2. AttemptHistoryMatchesLease' /\ TokensDiffer' /\ OutcomeHasAttempt'
    BY HistoryStep, TokensStep, OutcomeHasAttemptStep
  <2>3. CurrentClaimIsOpen' /\ UnsettledAttemptIsCurrent'
    BY CurrentClaimStep, UnsettledStep
  <2>4. LeaseFitsStatus'
    BY LeaseFitsStatusStep
  <2>5. BudgetIsKept'
    BY BudgetStep DEF BudgetIsKept
  <2> QED
    BY <2>1, <2>2, <2>3, <2>4, <2>5
<1> QED
  BY InitLeaseInv, <1>1, PTL DEF Spec

\* Every column and local variable keeps its type; in particular no lease ever
\* counts more attempts than the budget allows.
THEOREM TypeCorrect == Spec => []TypeOK
<1>1. LeaseInv => TypeOK
  BY DEF LeaseInv
<1> QED
  BY LeaseInvariant, <1>1, PTL

\* The immutable attempt rows always match the counters of the lease, so the
\* integrity scan of a running service never reports a gap.
THEOREM AttemptHistoryCorrect == Spec => []AttemptHistoryMatchesLease
<1>1. LeaseInv => AttemptHistoryMatchesLease
  BY DEF LeaseInv
<1> QED
  BY LeaseInvariant, <1>1, PTL

\* The fence of a terminal write also decides who writes the outcome: a worker
\* that passes it never meets an outcome of its attempt, even when two
\* processes run under one worker name.
THEOREM FencedWritesAreFirst == Spec => []FencedWriteNeverConflicts
<1>1. LeaseInv => FencedWriteNeverConflicts
  BY DEF LeaseInv, CurrentClaimIsOpen, Current, Fence, FencedWriteNeverConflicts
<1> QED
  BY LeaseInvariant, <1>1, PTL

\* Every attempt but the current one of a running job has its outcome.
THEOREM NoAttemptIsForgotten == Spec => []UnsettledAttemptIsCurrent
<1>1. LeaseInv => UnsettledAttemptIsCurrent
  BY DEF LeaseInv
<1> QED
  BY LeaseInvariant, <1>1, PTL

\* Where the retry handler is atomic (SQLite), a queued job can always be
\* claimed.
THEOREM QueuedJobsAreClaimable ==
  ASSUME AtomicRetry
  PROVE  Spec => []QueuedIsClaimable
<1>1. LeaseInv => QueuedIsClaimable
  BY DEF LeaseInv, LeaseFitsStatus, BudgetIsKept, QueuedIsClaimable
<1> QED
  BY LeaseInvariant, <1>1, PTL

\* A running job always has an owner and an expiry, so that the reaper can find
\* it, unless an earlier release left it and nobody has claimed it since.
THEOREM RunningJobsAreOwned ==
  Spec => []RunningIsOwned
<1>1. LeaseInv => RunningIsOwned
  BY DEF LeaseInv, LeaseFitsStatus, RunningIsOwned
<1> QED
  BY LeaseInvariant, <1>1, PTL

\* Where the retry handler is atomic, every queued job can be claimed and every
\* running job can be found by the reaper: none falls out of sight.
THEOREM NoJobFallsOutOfSight ==
  ASSUME AtomicRetry
  PROVE  Spec => []QueuedOrOwned
<1>1. Spec => []QueuedIsClaimable
  BY QueuedJobsAreClaimable
<1>2. QueuedIsClaimable /\ RunningIsOwned => QueuedOrOwned
  BY DEF QueuedOrOwned
<1> QED
  BY RunningJobsAreOwned, <1>1, <1>2, PTL

\* Where the retry handler is atomic, a dead letter is final: it stays, and so
\* does the failure of its job.
THEOREM DeadLettersAreFinal ==
  ASSUME AtomicRetry
  PROVE  Spec => DeadLetterIsFinal
<1> DEFINE Final == \A j \in Jobs : lease[j].dead =>
                      lease'[j].dead /\ status[j] = "failed" /\ status'[j] = "failed"
<1>1. LeaseInv /\ LeaseInv' /\ [Next]_vars => Final
  <2> SUFFICES ASSUME LeaseInv, LeaseInv', [Next]_vars,
                      NEW j \in Jobs, lease[j].dead
               PROVE  /\ lease'[j].dead
                      /\ status[j] = "failed" /\ status'[j] = "failed"
    OBVIOUS
  <2>1. status[j] = "failed"
    BY DEF LeaseInv, BudgetIsKept
  <2>2. lease'[j].dead
    <3>1. ASSUME NEW w \in Workers, NEW k \in Jobs, NEW lag \in Lags,
                 Claim(w, k, lag)
          PROVE  lease'[j].dead
      BY <3>1 DEF LeaseInv, TypeOK, Claim, Claimable
    <3>2. ASSUME NEW k \in Jobs, CreateVerification(k)
          PROVE  lease'[j].dead
      BY <2>1, <3>2 DEF LeaseInv, TypeOK, CreateVerification
    <3>3. CASE Calm
      BY <3>3 DEF Calm, LeasesCalm
    <3> QED
      BY <3>1, <3>2, <3>3, CalmStep DEF LeaseInv
  <2>3. lease'[j].dead => status'[j] = "failed"
    BY DEF LeaseInv, BudgetIsKept
  <2> QED
    BY <2>1, <2>2, <2>3
<1>2. LeaseInv /\ LeaseInv' /\ [Next]_vars => [Final]_vars
  BY <1>1
<1> QED
  BY LeaseInvariant, <1>2, PTL DEF Spec, DeadLetterIsFinal

-----------------------------------------------------------------------------
(* Outcomes                                                                 *)

Successes(j) ==
  {o \in outcomes : o.job = j /\ o.disposition = "committed_success"}

\* One job of ReviewedResultIsTheLastSuccess.
ReviewFits(j) ==
  /\ (status[j] = "needs_review") <=> Successes(j) # {}
  /\ \A o \in Successes(j) : /\ o.generation = lease[j].generation
                             /\ o.generation = result[j]

\* A step that adds no success keeps the review of every job whose status does
\* not enter or leave it and whose result stands.
LEMMA ReviewKept ==
  ASSUME NEW j \in Jobs, ReviewFits(j), LeasesCalm,
         outcomes \subseteq outcomes',
         \A o \in outcomes' : o \in outcomes \/ o.disposition # "committed_success",
         \/ status'[j] = status[j] /\ result'[j] = result[j]
         \/ status[j] # "needs_review" /\ status'[j] # "needs_review"
  PROVE  ReviewFits(j)'
<1>1. Successes(j)' = Successes(j)
  BY DEF Successes
<1>2. CASE status'[j] = status[j] /\ result'[j] = result[j]
  BY <1>1, <1>2 DEF ReviewFits, LeasesCalm
<1>3. CASE status[j] # "needs_review" /\ status'[j] # "needs_review"
  BY <1>1, <1>3 DEF ReviewFits
<1> QED
  BY <1>2, <1>3

\* Every step keeps a review tied to the success of the last attempt.
LEMMA ReviewStep ==
  ASSUME LeaseInv, ReviewedResultIsTheLastSuccess, [Next]_vars
  PROVE  ReviewedResultIsTheLastSuccess'
<1> USE DEF jobVars, historyVars
<1>0. /\ TypeOK /\ ClaimIsKnown /\ ClaimHasAttempt
      /\ \A j \in Jobs : ReviewFits(j)
  BY DEF LeaseInv, ReviewedResultIsTheLastSuccess, ReviewFits, Successes
<1> SUFFICES ASSUME NEW j \in Jobs PROVE ReviewFits(j)'
  BY DEF ReviewedResultIsTheLastSuccess, ReviewFits, Successes
<1>1. ASSUME NEW w \in Workers, NEW k \in Jobs, NEW lag \in Lags, Claim(w, k, lag)
      PROVE  ReviewFits(j)'
  <2>1. Successes(j)' = Successes(j) /\ result' = result
    BY <1>1 DEF Claim, Successes
  <2>2. CASE j = k
    <3>1. status[j] # "needs_review" /\ status'[j] # "needs_review"
      BY <1>0, <1>1, <2>2 DEF TypeOK, Claim, Claimable
    <3> QED
      BY <1>0, <2>1, <3>1 DEF ReviewFits
  <2>3. CASE j # k
    <3>1. status'[j] = status[j] /\ lease'[j] = lease[j]
      BY <1>0, <1>1, <2>3 DEF TypeOK, Claim
    <3> QED
      BY <1>0, <2>1, <3>1 DEF ReviewFits
  <2> QED
    BY <2>2, <2>3
<1>2. ASSUME NEW k \in Jobs, CreateVerification(k)
      PROVE  ReviewFits(j)'
  <2>1. Successes(j)' = Successes(j) /\ result' = result
    BY <1>2 DEF CreateVerification, Successes
  <2>2. CASE j = k
    <3>1. status[j] # "needs_review" /\ status'[j] # "needs_review"
      BY <1>0, <1>2, <2>2 DEF TypeOK, CreateVerification
    <3> QED
      BY <1>0, <2>1, <3>1 DEF ReviewFits
  <2>3. CASE j # k
    <3>1. status'[j] = status[j] /\ lease'[j] = lease[j]
      BY <1>0, <1>2, <2>3 DEF TypeOK, CreateVerification
    <3> QED
      BY <1>0, <2>1, <3>1 DEF ReviewFits
  <2> QED
    BY <2>2, <2>3
<1>3. ASSUME LeasesCalm, UNCHANGED <<status, result, outcomes>>
      PROVE  ReviewFits(j)'
  BY <1>0, <1>3, ReviewKept
<1>4. CASE Calm
  <2>1. LeasesCalm
    BY <1>4 DEF Calm
  <2>2. ASSUME NEW w \in Workers, NEW lag \in Lags, CommitSuccess(w, lag)
        PROVE  ReviewFits(j)'
    <3> DEFINE k == run[w].job
               g == run[w].generation
    <3>1. /\ k \in Jobs
          /\ lease[k].generation = g
          /\ status[k] # "needs_review"
      BY <1>0, <2>2 DEF CommitSuccess, Fence, ClaimIsKnown, Busy
    <3>2. outcomes' = outcomes \cup {Outcome(k, g, "committed_success", FALSE)}
      BY <2>2 DEF CommitSuccess
    <3>3. /\ Outcome(k, g, "committed_success", FALSE).job = k
          /\ Outcome(k, g, "committed_success", FALSE).generation = g
          /\ Outcome(k, g, "committed_success", FALSE).disposition
               = "committed_success"
      BY DEF Outcome
    <3>4. CASE j = k
      <4>1. status'[j] = "needs_review" /\ result'[j] = g
        BY <1>0, <2>2, <3>1, <3>4 DEF TypeOK, CommitSuccess
      <4>2. Successes(j) = {}
        BY <1>0, <3>1, <3>4 DEF ReviewFits
      <4>3. Successes(j)' = {Outcome(k, g, "committed_success", FALSE)}
        <5> DEFINE new == Outcome(k, g, "committed_success", FALSE)
        <5> HIDE DEF new
        <5>1. outcomes' = outcomes \cup {new} /\ new.job = k
              /\ new.disposition = "committed_success"
          BY <3>2, <3>3 DEF new
        <5> QED
          BY <3>4, <4>2, <5>1 DEF Successes, new
      <4>4. lease'[j].generation = g
        BY <2>1, <3>1, <3>4 DEF LeasesCalm
      <4> QED
        BY <3>3, <4>1, <4>3, <4>4 DEF ReviewFits
    <3>5. CASE j # k
      <4>1. status'[j] = status[j] /\ result'[j] = result[j]
        BY <1>0, <2>2, <3>5 DEF TypeOK, CommitSuccess
      <4>2. Successes(j)' = Successes(j)
        BY <3>2, <3>3, <3>5 DEF Successes
      <4> QED
        BY <1>0, <2>1, <4>1, <4>2 DEF ReviewFits, LeasesCalm
    <3> QED
      BY <3>4, <3>5
  <2>3. ASSUME NEW w \in Workers, NEW lag \in Lags, CommitFailure(w, lag)
        PROVE  ReviewFits(j)'
    <3>1. PICK dead \in BOOLEAN :
            outcomes' = outcomes \cup
              {Outcome(run[w].job, run[w].generation, "committed_failure", dead)}
      BY <2>3 DEF CommitFailure
    <3>2. /\ outcomes \subseteq outcomes'
          /\ \A o \in outcomes' :
               o \in outcomes \/ o.disposition # "committed_success"
      BY <3>1 DEF Outcome
    <3>3. \/ status'[j] = status[j] /\ result'[j] = result[j]
          \/ status[j] # "needs_review" /\ status'[j] # "needs_review"
      BY <1>0, <2>3 DEF TypeOK, CommitFailure, Fence
    <3> QED
      BY <1>0, <2>1, <3>2, <3>3, ReviewKept
  <2>4. ASSUME NEW k \in Jobs, NEW dead \in BOOLEAN, Expire(k, dead),
               status[k] = "running"
        PROVE  ReviewFits(j)'
    <3>1. /\ outcomes \subseteq outcomes'
          /\ \A o \in outcomes' :
               o \in outcomes \/ o.disposition = "lease_expired"
      BY <2>4, OutcomesWithEffect DEF Expire
    <3>2. \/ status'[j] = status[j] /\ result'[j] = result[j]
          \/ status[j] # "needs_review" /\ status'[j] # "needs_review"
      BY <1>0, <2>4 DEF TypeOK, Expire
    <3> QED
      BY <1>0, <2>1, <3>1, <3>2, ReviewKept
  <2>5. ASSUME NEW w \in Workers, NEW k \in Jobs, NEW lag \in Lags,
               Reap(w, k, lag) \/ RecoverLegacy(w, k) \/ RecoverLapsed(w, k, lag)
        PROVE  ReviewFits(j)'
    <3>1. Exhausted(lease[k]) \in BOOLEAN
      BY DEF Exhausted
    <3> QED
      BY <2>4, <2>5, <3>1
      DEF Reap, RecoverLegacy, RecoverLapsed, OrphanedLegacy, LapsedAtStartup
  <2>6. ASSUME NEW w \in Workers, ReportLoss(w)
        PROVE  ReviewFits(j)'
    <3>1. run[w].verdict # "committed_success" /\ status' = status /\ result' = result
      BY <1>0, <2>6 DEF ReportLoss, ClaimIsKnown, VerdictFits
    <3>2. CASE outcomes' = outcomes
      BY <1>3, <2>1, <3>1, <3>2
    <3>3. CASE outcomes' = OutcomesWith(run[w].job, run[w].generation,
                                        run[w].verdict, FALSE)
      <4>1. PICK dead \in BOOLEAN :
              outcomes' = OutcomesWith(run[w].job, run[w].generation,
                                       run[w].verdict, dead)
        BY <3>3
      <4>2. /\ outcomes \subseteq outcomes'
            /\ \A o \in outcomes' :
                 o \in outcomes \/ o.disposition = run[w].verdict
        BY <4>1, OutcomesWithEffect
      <4> QED
        BY <1>0, <2>1, <3>1, <4>2, ReviewKept
    <3> QED
      BY <2>6, <3>2, <3>3 DEF ReportLoss
  <2>7. ASSUME NEW k \in Jobs, status[k] = "failed", Requeue(k), outcomes' = outcomes
        PROVE  ReviewFits(j)'
    <3>1. \/ status'[j] = status[j] /\ result'[j] = result[j]
          \/ status[j] # "needs_review" /\ status'[j] # "needs_review"
      BY <1>0, <2>7 DEF TypeOK, Requeue
    <3> QED
      BY <1>0, <2>1, <2>7, <3>1, ReviewKept
  <2>8. ASSUME NEW k \in Jobs, Retry(k)
        PROVE  ReviewFits(j)'
    BY <2>7, <2>8 DEF Retry, MayRetry
  <2>9. ASSUME NEW r \in Requests, RetryWrite(r)
        PROVE  ReviewFits(j)'
    <3>1. retrying[r] \in Jobs
      BY <1>0, <2>9 DEF TypeOK, RetryWrite
    <3>2. CASE status[retrying[r]] = "failed"
      BY <2>7, <2>9, <3>1, <3>2 DEF RetryWrite
    <3>3. CASE status[retrying[r]] # "failed"
      BY <1>3, <2>1, <2>9, <3>3 DEF RetryWrite
    <3> QED
      BY <3>2, <3>3
  <2>10. ASSUME NEW w \in Workers, NEW k \in Jobs, NEW lag \in Lags,
                \/ Renew(w, lag) \/ LoseLease(w, lag) \/ CompletionRaises(w)
                \/ WriteFenced(w, lag) \/ StartWorker(w) \/ SeedLeases(w)
                \/ RecoverOther(w, k, lag) \/ EnterLoop(w) \/ Crash(w)
                \/ \E verdict \in Verdicts : FinishAnalysis(w, verdict)
         PROVE  ReviewFits(j)'
    BY <1>3, <2>1, <2>10
    DEF Renew, LoseLease, CompletionRaises, WriteFenced, StartWorker, SeedLeases,
        RecoverOther, EnterLoop, Crash, FinishAnalysis
  <2>11. ASSUME NEW r \in Requests, NEW k \in Jobs, RetryCheck(r, k)
         PROVE  ReviewFits(j)'
    BY <1>3, <2>1, <2>11 DEF RetryCheck
  <2>12. ASSUME Tick
         PROVE  ReviewFits(j)'
    BY <1>3, <2>1, <2>12 DEF Tick
  <2>13. CASE UNCHANGED vars
    BY <1>3, <2>1, <2>13 DEF vars
  <2>14. Lags # {} /\ Jobs # {}
    BY ConstantsAssumption DEF Lags
  <2> QED
    BY <1>1, <1>2, <2>2, <2>3, <2>5, <2>6, <2>8, <2>9, <2>10, <2>11, <2>12, <2>13,
       <2>14
    DEF Next, WorkerStep, ApiStep, Poll, Sweep, Heartbeat, Finish, TerminalWrite,
        Recover
<1> QED
  BY <1>0, <1>1, <1>2, <1>4, CalmStep

\* A job is up for review exactly when its last attempt committed a success,
\* and what is reviewed is the result of that attempt.
THEOREM ReviewedResultCorrect == Spec => []ReviewedResultIsTheLastSuccess
<1>1. Init => ReviewedResultIsTheLastSuccess
  BY DEF Init, ReviewedResultIsTheLastSuccess
<1>2. LeaseInv /\ ReviewedResultIsTheLastSuccess /\ [Next]_vars
        => ReviewedResultIsTheLastSuccess'
  BY ReviewStep
<1> QED
  BY LeaseInvariant, <1>1, <1>2, PTL DEF Spec

-----------------------------------------------------------------------------
(* The queue implements the life of a job                                   *)

\* A result is kept only by a job under review.
ResultFits == \A j \in Jobs : result[j] # 0 => status[j] = "needs_review"

\* The attempts, and the final failures, of the abstract life.
Spent == [j \in Jobs |-> lease[j].attempts]
ClosedJob(j) == status[j] = "failed" /\ (lease[j].dead \/ ~retryable[j])
Closed == [j \in Jobs |-> ClosedJob(j)]

\* A step that neither moves a job nor counts an attempt.
Unmoved ==
  /\ UNCHANGED jobVars
  /\ \A k \in Jobs : /\ lease'[k].attempts = lease[k].attempts
                     /\ lease'[k].dead = lease[k].dead

\* Such a step is a stutter of the abstract life.
LEMMA UnmovedStutters ==
  ASSUME Unmoved
  PROVE  UNCHANGED Lifecycle!vars
<1>1. Spent' = Spent /\ Closed' = Closed /\ UNCHANGED jobVars
  BY DEF Unmoved, Spent, Closed, ClosedJob, jobVars
<1> QED
  BY <1>1 DEF Lifecycle!vars, Spent, Closed, ClosedJob, jobVars

\* One job moves from one status to another, spending no attempt.
Moved(j, from, to) ==
  /\ status[j] = from
  /\ status' = [status EXCEPT ![j] = to]
  /\ \A k \in Jobs : lease'[k].attempts = lease[k].attempts
  /\ \A k \in Jobs \ {j} : lease'[k].dead = lease[k].dead /\ retryable'[k] = retryable[k]

\* It does so in the abstract life too, and no other failure is closed or
\* opened by it.
LEMMA MovedMoves ==
  ASSUME TypeOK, NEW j \in Jobs, NEW from, NEW to, Moved(j, from, to),
         from # "failed" \/ ~ClosedJob(j)
  PROVE  /\ Lifecycle!Move(j, from, to)
         /\ Spent' = Spent
         /\ to # "failed" => Closed' = Closed
         /\ to = "failed" => Closed' = [Closed EXCEPT ![j] = ClosedJob(j)']
<1>1. Lifecycle!Move(j, from, to)
  BY DEF TypeOK, Moved, Lifecycle!Move
<1>2. Spent' = Spent
  BY DEF Moved, Spent
<1>3. \A k \in Jobs : status'[k] = IF k = j THEN to ELSE status[k]
  BY DEF TypeOK, Moved
<1>4. \A k \in Jobs \ {j} : ClosedJob(k)' = ClosedJob(k)
  BY <1>3 DEF Moved, ClosedJob
<1>5. to # "failed" => ClosedJob(j)' = ClosedJob(j)
  BY <1>3 DEF Moved, ClosedJob
<1> QED
  BY <1>1, <1>2, <1>4, <1>5 DEF Closed

\* A reaped or recovered job fails for good or is given back.
LEMMA ExpireMoves ==
  ASSUME LeaseInv, ResultFits, NEW j \in Jobs, NEW dead \in BOOLEAN, Expire(j, dead),
         status[j] = "running", ~dead => ~Exhausted(lease[j])
  PROVE  Lifecycle!Next /\ ResultFits'
<1> USE DEF historyVars
<1>1. TypeOK /\ result[j] = 0 /\ lease[j].attempts \in Nat
  BY DEF LeaseInv, ResultFits, TypeOK, LeaseType, Generations
<1>2. /\ lease'[j].attempts = lease[j].attempts
      /\ lease'[j].dead = (lease[j].dead \/ dead)
      /\ \A k \in Jobs \ {j} : lease'[k] = lease[k]
  BY <1>1, ReleasedType DEF TypeOK, Expire
<1>3. result' = result /\ ResultFits'
  BY <1>1 DEF TypeOK, Expire, ResultFits
<1>4. CASE dead
  <2>1. Moved(j, "running", "failed")
    BY <1>1, <1>2, <1>4 DEF Expire, Moved
  <2>2. Closed' = [Closed EXCEPT ![j] = TRUE]
    <3>1. ClosedJob(j)' = TRUE
      BY <1>2, <2>1, <1>1, <1>4 DEF ClosedJob, Moved, TypeOK
    <3> QED
      BY <1>1, <2>1, <3>1, MovedMoves
  <2>3. Lifecycle!Fail(j, TRUE)
    BY <1>1, <1>3, <2>1, <2>2, MovedMoves DEF Lifecycle!Fail, Spent, Closed, ClosedJob
  <2> QED
    BY <1>3, <2>3 DEF Lifecycle!Next
<1>5. CASE ~dead
  <2>1. Moved(j, "running", "queued")
    BY <1>1, <1>2, <1>5 DEF Expire, Moved
  <2>2. Closed' = Closed
    BY <1>1, <2>1, MovedMoves
  <2>3. lease[j].attempts < MaxAttempts
    BY <1>1, <1>5, ConstantsAssumption DEF Exhausted
  <2>4. Lifecycle!GiveBack(j)
    BY <1>1, <1>3, <2>1, <2>2, <2>3, MovedMoves DEF Lifecycle!GiveBack, Spent, Closed, ClosedJob
  <2> QED
    BY <1>3, <2>4 DEF Lifecycle!Next
<1> QED
  BY <1>4, <1>5

\* Where the retry handler is atomic every step of the queue is a step of the
\* abstract life or a stutter.
LEMMA LifecycleStep ==
  ASSUME LeaseInv, ResultFits, AtomicRetry, [Next]_vars
  PROVE  [Lifecycle!Next]_(Lifecycle!vars) /\ ResultFits'
<1> DEFINE Goal == [Lifecycle!Next]_(Lifecycle!vars) /\ ResultFits'
<1> USE DEF historyVars
<1>0. TypeOK /\ ClaimIsKnown /\ CountersAgree
  BY DEF LeaseInv
<1>a. ASSUME Unmoved PROVE Goal
  BY <1>a, UnmovedStutters DEF Unmoved, jobVars, ResultFits
<1>1. ASSUME NEW w \in Workers, NEW j \in Jobs, NEW lag \in Lags, Claim(w, j, lag)
      PROVE  Goal
  <2>1. /\ lease[j].attempts \in Nat
        /\ lease[j].attempts < MaxAttempts
        /\ status[j] = "queued" /\ ~lease[j].dead
    BY <1>0, <1>1, ConstantsAssumption
    DEF TypeOK, LeaseType, Generations, Claim, Claimable, Exhausted
  <2>2. /\ lease'[j].attempts = lease[j].attempts + 1
        /\ \A k \in Jobs \ {j} : lease'[k] = lease[k]
        /\ status'[j] = "running"
        /\ \A k \in Jobs \ {j} : status'[k] = status[k]
    BY <1>0, <1>1 DEF TypeOK, Claim
  <2>3. Spent' = [Spent EXCEPT ![j] = @ + 1]
    BY <2>2 DEF Spent
  <2>4. Closed' = Closed
    BY <1>1, <2>1, <2>2 DEF Closed, ClosedJob, Claim
  <2>5. Lifecycle!Move(j, "queued", "running")
    BY <1>0, <1>1, <2>1 DEF TypeOK, Claim, Lifecycle!Move
  <2>6. result' = result
    BY <1>1 DEF Claim
  <2>7. Lifecycle!Begin(j)
    BY <2>1, <2>3, <2>4, <2>5, <2>6 DEF Lifecycle!Begin, Spent, Closed, ClosedJob
  <2>8. ResultFits'
    BY <2>1, <2>2, <2>6 DEF ResultFits
  <2> QED
    BY <2>7, <2>8 DEF Lifecycle!Next
<1>2. ASSUME NEW j \in Jobs, CreateVerification(j)
      PROVE  Goal
  <2>1. /\ lease'[j].attempts = lease[j].attempts
        /\ \A k \in Jobs \ {j} : lease'[k] = lease[k]
    BY <1>0, <1>2 DEF TypeOK, CountersAgree, CreateVerification, FreshLease
  <2>2. Moved(j, "absent", "queued") /\ result' = result
    BY <1>2, <2>1 DEF Moved, CreateVerification
  <2>3. Closed' = Closed
    BY <1>0, <2>2, MovedMoves
  <2>4. Lifecycle!Submit(j)
    BY <1>0, <2>2, <2>3, MovedMoves DEF Lifecycle!Submit, Spent, Closed, ClosedJob
  <2>5. ResultFits'
    BY <1>0, <2>2 DEF TypeOK, Moved, ResultFits
  <2> QED
    BY <2>4, <2>5 DEF Lifecycle!Next
<1>3. ASSUME NEW w \in Workers, NEW lag \in Lags, CommitSuccess(w, lag)
      PROVE  Goal
  <2>0. PICK j \in Jobs, g \in Generations : j = run[w].job /\ g = run[w].generation
    BY <1>0, <1>3, ConstantsAssumption DEF CommitSuccess, ClaimIsKnown, Busy, Generations
  <2>1. status[j] = "running" /\ g = lease[j].attempts
    BY <1>0, <1>3, <2>0 DEF CommitSuccess, Fence, CountersAgree
  <2>2. /\ lease'[j].attempts = lease[j].attempts
        /\ \A k \in Jobs \ {j} : lease'[k] = lease[k]
    <3>1. lease' = [lease EXCEPT ![j] = Released(@, FALSE)]
      BY <1>3, <2>0 DEF CommitSuccess
    <3>2. Released(lease[j], FALSE).attempts = lease[j].attempts
      BY <1>0, <2>1, ReleasedType DEF TypeOK
    <3> QED
      BY <1>0, <2>1, <3>1, <3>2 DEF TypeOK
  <2>3. Moved(j, "running", "needs_review") /\ result' = [result EXCEPT ![j] = g]
    BY <1>3, <2>0, <2>1, <2>2 DEF Moved, CommitSuccess
  <2>4. Closed' = Closed
    BY <1>0, <2>1, <2>3, MovedMoves
  <2>5. Spent[j] = g
    BY <2>1 DEF Spent
  <2>6. Lifecycle!Deliver(j)
    BY <1>0, <2>1, <2>3, <2>4, <2>5, MovedMoves DEF Lifecycle!Deliver, Spent, Closed, ClosedJob
  <2>7. ResultFits'
    BY <1>0, <2>1, <2>3 DEF TypeOK, Moved, ResultFits
  <2> QED
    BY <2>1, <2>6, <2>7 DEF Lifecycle!Next
<1>4. ASSUME NEW w \in Workers, NEW lag \in Lags, CommitFailure(w, lag)
      PROVE  Goal
  <2>0. PICK j \in Jobs : j = run[w].job
    BY <1>0, <1>4 DEF CommitFailure, ClaimIsKnown, Busy
  <2>1. status[j] = "running"
    BY <1>0, <1>4, <2>0 DEF CommitFailure, Fence
  <2>2. PICK dead \in BOOLEAN : lease' = [lease EXCEPT ![j] = Released(@, dead)]
    BY <1>4, <2>0 DEF CommitFailure
  <2>3. /\ lease'[j].attempts = lease[j].attempts
        /\ lease'[j].dead \in BOOLEAN
        /\ \A k \in Jobs \ {j} : lease'[k] = lease[k]
    BY <1>0, <2>1, <2>2, ReleasedType DEF TypeOK, LeaseType
  <2>4. Moved(j, "running", "failed") /\ result' = result
    BY <1>0, <1>4, <2>0, <2>1, <2>3 DEF TypeOK, Moved, CommitFailure
  <2>5. PICK final \in BOOLEAN : final = ClosedJob(j)'
    BY DEF ClosedJob
  <2>6. Closed' = [Closed EXCEPT ![j] = final]
    BY <1>0, <2>1, <2>4, <2>5, MovedMoves
  <2>7. Lifecycle!Fail(j, final)
    BY <1>0, <2>1, <2>4, <2>6, MovedMoves DEF Lifecycle!Fail, Spent, Closed, ClosedJob
  <2>8. ResultFits'
    BY <1>0, <2>1, <2>4 DEF TypeOK, Moved, ResultFits
  <2> QED
    BY <2>1, <2>5, <2>7, <2>8 DEF Lifecycle!Next
<1>5. ASSUME NEW w \in Workers, NEW j \in Jobs, NEW lag \in Lags,
             Reap(w, j, lag) \/ RecoverLapsed(w, j, lag)
      PROVE  Goal
  <2>1. Exhausted(lease[j]) \in BOOLEAN
    BY DEF Exhausted
  <2> QED
    BY <1>5, <2>1, ExpireMoves DEF Reap, RecoverLapsed, LapsedAtStartup
<1>6. ASSUME NEW w \in Workers, NEW j \in Jobs, RecoverLegacy(w, j)
      PROVE  Goal
  <2>1. ~Exhausted(lease[j])
    BY <1>6, ConstantsAssumption
    DEF RecoverLegacy, OrphanedLegacy, LeaseInv, LeaseFitsStatus, Exhausted
  <2> QED
    BY <1>6, <2>1, ExpireMoves DEF RecoverLegacy, OrphanedLegacy
<1>7. ASSUME NEW j \in Jobs, Retry(j)
      PROVE  Goal
  <2>1. /\ status[j] = "failed" /\ retryable[j] /\ ~lease[j].dead
        /\ lease[j].attempts < MaxAttempts /\ lease' = lease /\ retryable' = retryable
    BY <1>0, <1>7, ConstantsAssumption
    DEF Retry, MayRetry, Exhausted, TypeOK, LeaseType, Generations
  <2>2. Moved(j, "failed", "queued")
    BY <1>7, <2>1 DEF Retry, Requeue, Moved
  <2>3. result' = result
    BY <1>0, <1>7, <2>1 DEF TypeOK, Retry, Requeue, ResultFits
  <2>4. ~ClosedJob(j) /\ Closed' = Closed
    <3>1. ~ClosedJob(j)
      BY <2>1 DEF ClosedJob
    <3> QED
      BY <1>0, <2>2, <3>1, MovedMoves
  <2>5. Lifecycle!Reopen(j)
    BY <1>0, <2>1, <2>2, <2>3, <2>4, MovedMoves DEF Lifecycle!Reopen, Spent, Closed, ClosedJob
  <2>6. ResultFits'
    BY <1>0, <2>1, <2>2, <2>3 DEF TypeOK, Moved, ResultFits
  <2> QED
    BY <2>5, <2>6 DEF Lifecycle!Next
<1>8. ASSUME NEW r \in Requests, RetryWrite(r)
      PROVE  Goal
  BY <1>8 DEF LeaseInv, BudgetIsKept, RetryWrite
<1>9. ASSUME NEW w \in Workers, NEW lag \in Lags, Renew(w, lag)
      PROVE  Goal
  <2>1. run[w].job \in Jobs
    BY <1>0, <1>9 DEF Renew, ClaimIsKnown, Busy
  <2> QED
    BY <1>0, <1>9, <1>a, <2>1 DEF TypeOK, LeaseType, Renew, Unmoved
<1>10. ASSUME NEW w \in Workers, SeedLeases(w)
       PROVE  Goal
  BY <1>0, <1>10, <1>a DEF TypeOK, LeaseType, SeedLeases, Unmoved
<1>11. ASSUME NEW w \in Workers, NEW j \in Jobs, NEW lag \in Lags,
              RecoverOther(w, j, lag)
       PROVE  Goal
  <2>1. \A k \in Jobs : lease'[k] = lease[k] \/ lease'[k] = Released(lease[k], FALSE)
    BY <1>0, <1>11 DEF TypeOK, RecoverOther
  <2>2. \A k \in Jobs : /\ Released(lease[k], FALSE).attempts = lease[k].attempts
                        /\ Released(lease[k], FALSE).dead = lease[k].dead
    BY <1>0 DEF TypeOK, LeaseType, Released
  <2> QED
    BY <1>11, <1>a, <2>1, <2>2 DEF RecoverOther, Unmoved
<1>12. ASSUME Tick
       PROVE  Goal
  <2>1. \A k \in Jobs : /\ Older(lease[k]).attempts = lease[k].attempts
                        /\ Older(lease[k]).dead = lease[k].dead
    BY <1>0 DEF TypeOK, LeaseType, Older
  <2> QED
    BY <1>12, <1>a, <2>1 DEF Tick, Unmoved
<1>13. ASSUME NEW w \in Workers, NEW lag \in Lags,
              \/ LoseLease(w, lag) \/ CompletionRaises(w) \/ WriteFenced(w, lag)
              \/ ReportLoss(w) \/ StartWorker(w) \/ EnterLoop(w) \/ Crash(w)
              \/ \E verdict \in Verdicts : FinishAnalysis(w, verdict)
       PROVE  Goal
  BY <1>13, <1>a
  DEF LoseLease, CompletionRaises, WriteFenced, ReportLoss, StartWorker, EnterLoop,
      Crash, FinishAnalysis, Unmoved
<1>14. ASSUME NEW r \in Requests, NEW j \in Jobs, RetryCheck(r, j)
       PROVE  Goal
  BY <1>14, <1>a DEF RetryCheck, Unmoved
<1>15. CASE UNCHANGED vars
  BY <1>15, <1>a DEF vars, Unmoved, jobVars
<1>16. Lags # {}
  BY ConstantsAssumption DEF Lags
<1> QED
  BY <1>1, <1>2, <1>3, <1>4, <1>5, <1>6, <1>7, <1>8, <1>9, <1>10, <1>11, <1>12,
     <1>13, <1>14, <1>15, <1>16
  DEF Next, WorkerStep, ApiStep, Poll, Sweep, Heartbeat, Finish, TerminalWrite,
      Recover

\* Where the retry handler is atomic the queue implements the abstract life of
\* a job: with any number of workers, takeovers and crashes an attempt is spent
\* before the budget ends, only the last one delivers, and a failure that was
\* closed is never opened again.
THEOREM QueueImplementsLifecycle ==
  ASSUME AtomicRetry
  PROVE  Spec => ImplementsLifecycle
<1>1. Init => Lifecycle!Init /\ ResultFits
  <2> SUFFICES ASSUME Init PROVE Lifecycle!Init /\ ResultFits
    OBVIOUS
  <2>1. Spent = [j \in Jobs |-> 0] /\ Closed = [j \in Jobs |-> FALSE]
    BY DEF Init, Spent, Closed, ClosedJob, MissingLease, FreshLease
  <2>2. [j \in Jobs |-> status[j]] = status
    BY DEF Init
  <2> QED
    BY <2>1, <2>2 DEF Init, Lifecycle!Init, ResultFits, Spent, Closed, ClosedJob
<1>2. LeaseInv /\ ResultFits /\ [Next]_vars
        => [Lifecycle!Next]_(Lifecycle!vars) /\ ResultFits'
  BY LifecycleStep
<1> QED
  BY LeaseInvariant, <1>1, <1>2, PTL DEF Spec, ImplementsLifecycle, Lifecycle!Spec

-----------------------------------------------------------------------------
(* Whoever writes the outcome of an attempt agrees with its lease           *)

\* The attempt with token g of job j has a lease that has not expired.
LiveLease(j, g) ==
  /\ status[j] = "running"
  /\ lease[j].generation = g
  /\ Unexpired(lease[j], 0)

\* A dead letter is not running.
DeadIsNotRunning == \A j \in Jobs : lease[j].dead => status[j] # "running"

\* Who holds a lease made the claim that gave it its token.
OwnerHasAttempt ==
  \A j \in Jobs : lease[j].owner # NoWorker =>
    \E a \in attempts :
      /\ a.job = j
      /\ a.generation = lease[j].generation
      /\ a.worker = lease[j].owner

\* A worker whose write was fenced had no lease any more, and gets none back.
FencedIsOver ==
  \A w \in Workers :
    run[w].phase = "reporting" /\ run[w].verdict = "write_fenced" =>
      ~LiveLease(run[w].job, run[w].generation)

OutcomeInv ==
  /\ DeadIsNotRunning
  /\ OwnerHasAttempt
  /\ FencedIsOver
  /\ OutcomesAgree

\* A lease is made live by a claim, with a new token, or by the heartbeat of
\* the worker that holds it; any other step leaves it as it is or ends it.
LEMMA LiveAgain ==
  ASSUME LeaseInv, [Next]_vars, NEW j \in Jobs, NEW g, LiveLease(j, g)'
  PROVE  \/ LiveLease(j, g)
         \/ g = lease[j].generation + 1
         \/ \E w \in Workers : /\ Current(w)
                                /\ run[w].job = j /\ run[w].generation = g
<1> DEFINE Goal == \/ LiveLease(j, g)
                   \/ g = lease[j].generation + 1
                   \/ \E w \in Workers : /\ Current(w)
                                          /\ run[w].job = j /\ run[w].generation = g
<1> USE DEF jobVars, historyVars
<1>0. TypeOK /\ ClaimIsKnown
  BY DEF LeaseInv
<1>a. ASSUME status'[j] = status[j], lease'[j].generation = lease[j].generation,
             lease'[j].ttl = lease[j].ttl
      PROVE  Goal
  BY <1>a DEF LiveLease, Unexpired
<1>b. ASSUME status'[j] # "running" \/ lease'[j].ttl = NoTime
      PROVE  FALSE
  BY <1>b DEF LiveLease, Unexpired
<1> HIDE DEF Goal
<1>1. ASSUME NEW w \in Workers, NEW k \in Jobs, NEW lag \in Lags, Claim(w, k, lag)
      PROVE  Goal
  <2>1. CASE k = j
    BY <1>0, <1>1, <2>1 DEF TypeOK, Claim, LiveLease, Goal
  <2>2. CASE k # j
    BY <1>0, <1>1, <1>a, <2>2 DEF TypeOK, Claim
  <2> QED
    BY <2>1, <2>2
<1>2. ASSUME NEW w \in Workers, NEW lag \in Lags, Renew(w, lag)
      PROVE  Goal
  <2>1. CASE run[w].job = j
    <3>1. Current(w) /\ lease'[j].generation = lease[j].generation
      BY <1>0, <1>2, <2>1 DEF TypeOK, LeaseType, Renew, Fence, Current
    <3> QED
      BY <2>1, <3>1 DEF Current, LiveLease, Goal
  <2>2. CASE run[w].job # j
    BY <1>0, <1>2, <1>a, <2>2 DEF TypeOK, Renew
  <2> QED
    BY <2>1, <2>2
<1>3. ASSUME NEW k \in Jobs, NEW dead \in BOOLEAN, NEW s, s # "running",
             lease' = [lease EXCEPT ![k] = Released(@, dead)],
             status' = [status EXCEPT ![k] = s]
      PROVE  Goal
  <2>1. CASE k = j
    BY <1>0, <1>3, <1>b, <2>1 DEF TypeOK
  <2>2. CASE k # j
    BY <1>0, <1>3, <1>a, <2>2 DEF TypeOK
  <2> QED
    BY <2>1, <2>2
<1>4. ASSUME NEW w \in Workers, NEW lag \in Lags,
             CommitSuccess(w, lag) \/ CommitFailure(w, lag)
      PROVE  Goal
  <2>1. run[w].job \in Jobs
    BY <1>0, <1>4 DEF CommitSuccess, CommitFailure, ClaimIsKnown, Busy
  <2>2. PICK dead \in BOOLEAN :
          lease' = [lease EXCEPT ![run[w].job] = Released(@, dead)]
    BY <1>4 DEF CommitSuccess, CommitFailure
  <2> QED
    BY <1>3, <1>4, <2>1, <2>2 DEF CommitSuccess, CommitFailure
<1>5. ASSUME NEW k \in Jobs, NEW dead \in BOOLEAN, Expire(k, dead)
      PROVE  Goal
  <2>1. PICK s : s # "running" /\ status' = [status EXCEPT ![k] = s]
    BY <1>5 DEF Expire
  <2> QED
    BY <1>3, <1>5, <2>1 DEF Expire
<1>6. ASSUME NEW w \in Workers, NEW k \in Jobs, NEW lag \in Lags,
             Reap(w, k, lag) \/ RecoverLegacy(w, k) \/ RecoverLapsed(w, k, lag)
      PROVE  Goal
  <2>1. Exhausted(lease[k]) \in BOOLEAN
    BY DEF Exhausted
  <2> QED
    BY <1>5, <1>6, <2>1 DEF Reap, RecoverLegacy, RecoverLapsed
<1>7. ASSUME NEW w \in Workers, NEW k \in Jobs, NEW lag \in Lags,
             RecoverOther(w, k, lag)
      PROVE  Goal
  <2>1. status' = status
    BY <1>7 DEF RecoverOther
  <2>2. lease'[j] = lease[j] \/ lease'[j] = Released(lease[j], FALSE)
    BY <1>0, <1>7 DEF TypeOK, RecoverOther
  <2>3. Released(lease[j], FALSE).ttl = NoTime
    BY <1>0, ReleasedType DEF TypeOK
  <2> QED
    BY <1>a, <1>b, <2>1, <2>2, <2>3
<1>8. ASSUME NEW w \in Workers, SeedLeases(w)
      PROVE  Goal
  BY <1>0, <1>8, <1>a DEF TypeOK, LeaseType, SeedLeases
<1>9. ASSUME NEW k \in Jobs, CreateVerification(k)
      PROVE  Goal
  <2>1. CASE k = j
    BY <1>0, <1>9, <1>b, <2>1 DEF TypeOK, CreateVerification
  <2>2. CASE k # j
    BY <1>0, <1>9, <1>a, <2>2 DEF TypeOK, CreateVerification
  <2> QED
    BY <2>1, <2>2
<1>10. ASSUME NEW k \in Jobs, Requeue(k), lease' = lease
       PROVE  Goal
  <2>1. CASE k = j
    BY <1>0, <1>10, <1>b, <2>1 DEF TypeOK, Requeue
  <2>2. CASE k # j
    BY <1>0, <1>10, <1>a, <2>2 DEF TypeOK, Requeue
  <2> QED
    BY <2>1, <2>2
<1>11. ASSUME NEW k \in Jobs, Retry(k)
       PROVE  Goal
  BY <1>10, <1>11 DEF Retry
<1>12. ASSUME NEW r \in Requests, RetryWrite(r)
       PROVE  Goal
  BY <1>0, <1>10, <1>12, <1>a DEF TypeOK, RetryWrite
<1>13. ASSUME Tick
       PROVE  Goal
  <2>1. lease'[j] = Older(lease[j]) /\ status' = status
    BY <1>13 DEF Tick
  <2>2. \/ Older(lease[j]) = lease[j]
        \/ /\ Older(lease[j]).generation = lease[j].generation
           /\ Older(lease[j]).ttl = lease[j].ttl - 1
    BY <1>0 DEF TypeOK, LeaseType, Older
  <2>3. lease[j].ttl \in Int \/ lease[j].ttl = NoTime
    BY <1>0, ConstantsAssumption DEF TypeOK, LeaseType
  <2>4. CASE Older(lease[j]) = lease[j]
    BY <1>a, <2>1, <2>4
  <2>5. CASE /\ Older(lease[j]).generation = lease[j].generation
             /\ Older(lease[j]).ttl = lease[j].ttl - 1
    <3>1. CASE lease[j].ttl = NoTime
      BY <1>0, <1>b, <2>1, <3>1 DEF Older
    <3>2. CASE lease[j].ttl \in Int
      BY <2>1, <2>5, <3>2, ConstantsAssumption DEF LiveLease, Unexpired, Goal
    <3> QED
      BY <2>3, <3>1, <3>2
  <2> QED
    BY <2>2, <2>4, <2>5
<1>14. ASSUME UNCHANGED <<status, lease>>
       PROVE  Goal
  BY <1>14, <1>a
<1>15. ASSUME NEW w \in Workers, NEW lag \in Lags,
              \/ LoseLease(w, lag) \/ CompletionRaises(w) \/ WriteFenced(w, lag)
              \/ ReportLoss(w) \/ StartWorker(w) \/ EnterLoop(w) \/ Crash(w)
              \/ \E verdict \in Verdicts : FinishAnalysis(w, verdict)
       PROVE  Goal
  BY <1>14, <1>15
  DEF LoseLease, CompletionRaises, WriteFenced, ReportLoss, StartWorker, EnterLoop,
      Crash, FinishAnalysis
<1>16. ASSUME NEW r \in Requests, NEW k \in Jobs, RetryCheck(r, k)
       PROVE  Goal
  BY <1>14, <1>16 DEF RetryCheck
<1>17. ASSUME UNCHANGED vars
       PROVE  Goal
  BY <1>14, <1>17 DEF vars
<1>18. Lags # {}
  BY ConstantsAssumption DEF Lags
<1>19. Goal
  BY <1>1, <1>2, <1>4, <1>6, <1>7, <1>8, <1>9, <1>11, <1>12, <1>13, <1>15, <1>16,
     <1>17, <1>18
  DEF Next, WorkerStep, ApiStep, Poll, Sweep, Heartbeat, Finish, TerminalWrite,
      Recover
<1> QED
  BY <1>19 DEF Goal

\* A step writes at most one outcome, of an attempt that has none.  It gives up
\* the lease with it, or it is the report of a worker that gave its lease up or
\* was fenced.
Reported(o) ==
  /\ lease' = lease /\ status' = status
  /\ \/ o.disposition = "lease_lost"
     \/ \E w \in Workers :
          /\ run[w].phase = "reporting" /\ run[w].verdict = "write_fenced"
          /\ run[w].job = o.job /\ run[w].generation = o.generation

Recorded(o) ==
  /\ outcomes' = outcomes \cup {o}
  /\ o.job \in Jobs
  /\ ~Settled(o.job, o.generation)
  /\ lease'[o.job].ttl = NoTime \/ Reported(o)

LEMMA OutcomeStep ==
  ASSUME LeaseInv, [Next]_vars
  PROVE  outcomes' = outcomes \/ \E o : Recorded(o)
<1> DEFINE Goal == outcomes' = outcomes \/ \E o : Recorded(o)
<1> USE DEF historyVars
<1>0. TypeOK /\ ClaimIsKnown
  BY DEF LeaseInv
<1> HIDE DEF Goal
<1>1. ASSUME NEW j \in Jobs, NEW g, NEW d, NEW dead \in BOOLEAN,
             outcomes' = OutcomesWith(j, g, d, dead),
             lease'[j].ttl = NoTime \/ Reported(Outcome(j, g, d, dead))
      PROVE  Goal
  <2>1. CASE AttemptOf(j, g) = {} \/ Settled(j, g)
    BY <1>1, <2>1 DEF OutcomesWith, Goal
  <2>2. CASE ~(AttemptOf(j, g) = {} \/ Settled(j, g))
    <3>1. outcomes' = outcomes \cup {Outcome(j, g, d, dead)}
      BY <1>1, <2>2 DEF OutcomesWith
    <3>2. Recorded(Outcome(j, g, d, dead))
      BY <1>1, <2>2, <3>1, OutcomeFields DEF Recorded
    <3> QED
      BY <3>2 DEF Goal
  <2> QED
    BY <2>1, <2>2
<1>2. ASSUME NEW w \in Workers, NEW lag \in Lags,
             CommitSuccess(w, lag) \/ CommitFailure(w, lag)
      PROVE  Goal
  <2>1. PICK j \in Jobs, g \in 1..MaxAttempts : j = run[w].job /\ g = run[w].generation
    BY <1>0, <1>2 DEF CommitSuccess, CommitFailure, ClaimIsKnown, Busy
  <2>2. PICK d \in Dispositions, dead \in BOOLEAN :
          /\ outcomes' = outcomes \cup {Outcome(j, g, d, dead)}
          /\ lease' = [lease EXCEPT ![j] = Released(@, dead)]
          /\ ~Settled(j, g)
    BY <1>2, <2>1 DEF CommitSuccess, CommitFailure, Dispositions
  <2>3. lease'[j].ttl = NoTime
    BY <1>0, <2>2, ReleasedType DEF TypeOK
  <2>4. Recorded(Outcome(j, g, d, dead))
    BY <2>2, <2>3, OutcomeFields DEF Recorded
  <2> QED
    BY <2>4 DEF Goal
<1>3. ASSUME NEW j \in Jobs, NEW dead \in BOOLEAN, Expire(j, dead)
      PROVE  Goal
  <2>1. lease'[j].ttl = NoTime
    BY <1>0, <1>3, ReleasedType DEF TypeOK, Expire
  <2> QED
    BY <1>1, <1>3, <2>1 DEF Expire
<1>4. ASSUME NEW w \in Workers, NEW j \in Jobs, NEW lag \in Lags,
             Reap(w, j, lag) \/ RecoverLegacy(w, j) \/ RecoverLapsed(w, j, lag)
      PROVE  Goal
  <2>1. Exhausted(lease[j]) \in BOOLEAN
    BY DEF Exhausted
  <2> QED
    BY <1>3, <1>4, <2>1 DEF Reap, RecoverLegacy, RecoverLapsed
<1>5. ASSUME NEW w \in Workers, ReportLoss(w)
      PROVE  Goal
  <2>1. PICK j \in Jobs, g \in 1..MaxAttempts, d \in {"lease_lost", "write_fenced"} :
          j = run[w].job /\ g = run[w].generation /\ d = run[w].verdict
    BY <1>0, <1>5 DEF ReportLoss, ClaimIsKnown, VerdictFits, Busy
  <2>2. outcomes' = outcomes \/ outcomes' = OutcomesWith(j, g, d, FALSE)
    BY <1>5, <2>1 DEF ReportLoss
  <2>3. Reported(Outcome(j, g, d, FALSE))
    <3>1. lease' = lease /\ status' = status /\ run[w].phase = "reporting"
      BY <1>5 DEF ReportLoss, jobVars
    <3>2. /\ Outcome(j, g, d, FALSE).job = j
          /\ Outcome(j, g, d, FALSE).generation = g
          /\ Outcome(j, g, d, FALSE).disposition = d
      BY DEF Outcome
    <3> QED
      BY <2>1, <3>1, <3>2 DEF Reported
  <2> QED
    BY <1>1, <2>2, <2>3 DEF Goal
<1>6. ASSUME outcomes' = outcomes
      PROVE  Goal
  BY <1>6 DEF Goal
<1>7. ASSUME NEW w \in Workers, NEW j \in Jobs, NEW lag \in Lags,
             \/ Claim(w, j, lag) \/ Renew(w, lag) \/ LoseLease(w, lag)
             \/ CompletionRaises(w) \/ WriteFenced(w, lag) \/ StartWorker(w)
             \/ SeedLeases(w) \/ RecoverOther(w, j, lag) \/ EnterLoop(w) \/ Crash(w)
             \/ \E verdict \in Verdicts : FinishAnalysis(w, verdict)
      PROVE  Goal
  BY <1>6, <1>7
  DEF Claim, Renew, LoseLease, CompletionRaises, WriteFenced, StartWorker, SeedLeases,
      RecoverOther, EnterLoop, Crash, FinishAnalysis
<1>8. ASSUME NEW j \in Jobs, CreateVerification(j) \/ Retry(j)
      PROVE  Goal
  BY <1>6, <1>8 DEF CreateVerification, Retry
<1>9. ASSUME NEW r \in Requests, RetryWrite(r) \/ \E j \in Jobs : RetryCheck(r, j)
      PROVE  Goal
  BY <1>6, <1>9 DEF RetryWrite, RetryCheck
<1>10. ASSUME Tick \/ UNCHANGED vars
       PROVE  Goal
  BY <1>6, <1>10 DEF Tick, vars
<1>11. ASSUME NEW w \in Workers, WorkerStep(w), Jobs # {}
       PROVE  Goal
  <2>1. PICK k \in Jobs, anyLag \in Lags : TRUE
    BY <1>11, ConstantsAssumption DEF Lags
  <2> QED
    BY <1>2, <1>4, <1>5, <1>7, <1>11, <2>1
    DEF WorkerStep, Poll, Sweep, Heartbeat, Finish, TerminalWrite, Recover
<1>12. ASSUME NEW w \in Workers, WorkerStep(w), Jobs = {}
       PROVE  Goal
  <2>1. outcomes' \subseteq OutcomeType /\ outcomes \subseteq OutcomeType
    BY <1>0, TypeStep DEF LeaseInv, TypeOK
  <2>2. outcomes' = outcomes
    BY <1>12, <2>1 DEF OutcomeType
  <2> QED
    BY <1>6, <2>2
<1>13. Goal
  BY <1>8, <1>9, <1>10, <1>11, <1>12 DEF Next, ApiStep
<1> QED
  BY <1>13 DEF Goal

\* A failure is dead-lettered with the step that fails it.
LEMMA DeadStep ==
  ASSUME LeaseInv, DeadIsNotRunning, [Next]_vars
  PROVE  DeadIsNotRunning'
<1> USE DEF jobVars, historyVars
<1>0. TypeOK /\ ClaimIsKnown
  BY DEF LeaseInv
<1> SUFFICES ASSUME NEW j \in Jobs, lease'[j].dead, status'[j] = "running"
             PROVE  FALSE
  BY DEF DeadIsNotRunning
<1>a. ~(lease'[j].dead = lease[j].dead /\ status'[j] = status[j])
  BY DEF DeadIsNotRunning
<1>1. ASSUME NEW w \in Workers, NEW k \in Jobs, NEW lag \in Lags, Claim(w, k, lag)
      PROVE  FALSE
  BY <1>0, <1>1, <1>a DEF TypeOK, Claim
<1>2. ASSUME NEW k \in Jobs, NEW s, s # "running",
             \A i \in Jobs \ {k} : lease'[i] = lease[i],
             status' = [status EXCEPT ![k] = s]
      PROVE  FALSE
  BY <1>0, <1>2, <1>a DEF TypeOK
<1>3. ASSUME NEW w \in Workers, NEW lag \in Lags,
             CommitSuccess(w, lag) \/ CommitFailure(w, lag)
      PROVE  FALSE
  <2>1. run[w].job \in Jobs
    BY <1>0, <1>3 DEF CommitSuccess, CommitFailure, ClaimIsKnown, Busy
  <2>2. \A i \in Jobs \ {run[w].job} : lease'[i] = lease[i]
    BY <1>0, <1>3 DEF CommitSuccess, CommitFailure, TypeOK
  <2> QED
    BY <1>2, <1>3, <2>1, <2>2 DEF CommitSuccess, CommitFailure
<1>4. ASSUME NEW k \in Jobs, NEW dead \in BOOLEAN, Expire(k, dead)
      PROVE  FALSE
  <2>1. PICK s : s # "running" /\ status' = [status EXCEPT ![k] = s]
    BY <1>4 DEF Expire
  <2>2. \A i \in Jobs \ {k} : lease'[i] = lease[i]
    BY <1>0, <1>4 DEF Expire, TypeOK
  <2> QED
    BY <1>2, <2>1, <2>2
<1>5. ASSUME NEW w \in Workers, NEW k \in Jobs, NEW lag \in Lags,
             Reap(w, k, lag) \/ RecoverLegacy(w, k) \/ RecoverLapsed(w, k, lag)
      PROVE  FALSE
  <2>1. Exhausted(lease[k]) \in BOOLEAN
    BY DEF Exhausted
  <2> QED
    BY <1>4, <1>5, <2>1 DEF Reap, RecoverLegacy, RecoverLapsed
<1>6. ASSUME NEW w \in Workers, NEW lag \in Lags, Renew(w, lag)
      PROVE  FALSE
  <2>0. run[w].job \in Jobs
    BY <1>0, <1>6 DEF Renew, ClaimIsKnown, Busy
  <2>1. lease'[j].dead = lease[j].dead
    BY <1>0, <1>6, <2>0 DEF TypeOK, LeaseType, Renew
  <2> QED
    BY <1>6, <1>a, <2>1 DEF Renew
<1>7. ASSUME NEW w \in Workers, SeedLeases(w)
      PROVE  FALSE
  <2>1. lease'[j].dead = lease[j].dead
    BY <1>0, <1>7 DEF TypeOK, LeaseType, SeedLeases
  <2> QED
    BY <1>7, <1>a, <2>1 DEF SeedLeases
<1>8. ASSUME NEW w \in Workers, NEW k \in Jobs, NEW lag \in Lags,
             RecoverOther(w, k, lag)
      PROVE  FALSE
  <2>1. Released(lease[j], FALSE).dead = lease[j].dead
    BY <1>0 DEF TypeOK, LeaseType, Released
  <2>2. lease'[j] = lease[j] \/ lease'[j] = Released(lease[j], FALSE)
    BY <1>0, <1>8 DEF TypeOK, RecoverOther
  <2> QED
    BY <1>8, <1>a, <2>1, <2>2 DEF RecoverOther
<1>9. ASSUME NEW k \in Jobs, CreateVerification(k)
      PROVE  FALSE
  <2>1. \A i \in Jobs \ {k} : lease'[i] = lease[i]
    BY <1>0, <1>9 DEF TypeOK, CreateVerification
  <2> QED
    BY <1>2, <1>9, <2>1 DEF CreateVerification
<1>10. ASSUME NEW k \in Jobs, Requeue(k), lease' = lease
       PROVE  FALSE
  BY <1>2, <1>10 DEF Requeue
<1>11. ASSUME NEW k \in Jobs, Retry(k)
       PROVE  FALSE
  BY <1>10, <1>11 DEF Retry
<1>12. ASSUME UNCHANGED <<status, lease>>
       PROVE  FALSE
  BY <1>12, <1>a
<1>13. ASSUME NEW r \in Requests, RetryWrite(r)
       PROVE  FALSE
  BY <1>0, <1>10, <1>12, <1>13 DEF TypeOK, RetryWrite
<1>14. ASSUME Tick
       PROVE  FALSE
  <2>1. lease'[j].dead = lease[j].dead
    BY <1>0, <1>14 DEF TypeOK, LeaseType, Tick, Older
  <2> QED
    BY <1>14, <1>a, <2>1 DEF Tick
<1>15. ASSUME NEW w \in Workers, NEW lag \in Lags,
              \/ LoseLease(w, lag) \/ CompletionRaises(w) \/ WriteFenced(w, lag)
              \/ ReportLoss(w) \/ StartWorker(w) \/ EnterLoop(w) \/ Crash(w)
              \/ \E verdict \in Verdicts : FinishAnalysis(w, verdict)
       PROVE  FALSE
  BY <1>12, <1>15
  DEF LoseLease, CompletionRaises, WriteFenced, ReportLoss, StartWorker, EnterLoop,
      Crash, FinishAnalysis
<1>16. ASSUME NEW r \in Requests, NEW k \in Jobs, RetryCheck(r, k)
       PROVE  FALSE
  BY <1>12, <1>16 DEF RetryCheck
<1>17. ASSUME UNCHANGED vars
       PROVE  FALSE
  BY <1>12, <1>17 DEF vars
<1>18. Lags # {}
  BY ConstantsAssumption DEF Lags
<1> QED
  BY <1>1, <1>3, <1>5, <1>6, <1>7, <1>8, <1>9, <1>11, <1>13, <1>14, <1>15, <1>16,
     <1>17, <1>18
  DEF Next, WorkerStep, ApiStep, Poll, Sweep, Heartbeat, Finish, TerminalWrite,
      Recover

\* A claim leaves the attempt of its lease; no step moves a lease otherwise.
LEMMA OwnerStep ==
  ASSUME LeaseInv, OwnerHasAttempt, [Next]_vars
  PROVE  OwnerHasAttempt'
<1>0. TypeOK /\ ClaimIsKnown /\ ClaimHasAttempt
  BY DEF LeaseInv
<1>1. ASSUME NEW w \in Workers, NEW j \in Jobs, NEW lag \in Lags, Claim(w, j, lag)
      PROVE  OwnerHasAttempt'
  <2>1. attempts \subseteq attempts' /\ \A k \in Jobs \ {j} : lease'[k] = lease[k]
    BY <1>0, <1>1 DEF TypeOK, Claim
  <2>2. \E a \in attempts' : /\ a.job = j
                             /\ a.generation = lease'[j].generation
                             /\ a.worker = lease'[j].owner
    <3> DEFINE new == [job |-> j, generation |-> lease[j].generation + 1,
                       number |-> lease[j].attempts + 1, worker |-> WorkerId[w]]
    <3>1. new \in attempts'
      BY <1>1 DEF Claim
    <3>2. /\ lease'[j].generation = lease[j].generation + 1
          /\ lease'[j].owner = WorkerId[w]
      BY <1>0, <1>1 DEF TypeOK, Claim
    <3>3. /\ new.job = j
          /\ new.generation = lease'[j].generation
          /\ new.worker = lease'[j].owner
      BY <3>2
    <3> HIDE DEF new
    <3> QED
      BY <3>1, <3>3
  <2> QED
    BY <2>1, <2>2 DEF OwnerHasAttempt
<1>2. ASSUME NEW j \in Jobs, CreateVerification(j)
      PROVE  OwnerHasAttempt'
  BY <1>0, <1>2 DEF TypeOK, CreateVerification, historyVars, FreshLease, OwnerHasAttempt
<1>3. CASE Calm
  BY <1>3 DEF Calm, LeasesCalm, OutcomesCalm, OwnerHasAttempt
<1> QED
  BY <1>0, <1>1, <1>2, <1>3, CalmStep

\* A worker reports a fenced write only after its write was fenced.
LEMMA FencedFrom ==
  ASSUME LeaseInv, [Next]_vars, NEW w \in Workers,
         run'[w].phase = "reporting", run'[w].verdict = "write_fenced"
  PROVE  run'[w] = run[w] \/ \E lag \in Lags : WriteFenced(w, lag)
<1> DEFINE Goal == run'[w] = run[w] \/ \E lag \in Lags : WriteFenced(w, lag)
<1> USE DEF jobVars, historyVars
<1>0. TypeOK
  BY DEF LeaseInv
<1>1. ASSUME run' = run
      PROVE  Goal
  BY <1>1
<1>2. ASSUME NEW v \in Workers, v # w,
             \E r : run' = [run EXCEPT ![v] = r]
      PROVE  Goal
  BY <1>0, <1>2 DEF TypeOK
<1>3. ASSUME NEW r, run' = [run EXCEPT ![w] = r],
             r.phase # "reporting" \/ r.verdict # "write_fenced"
      PROVE  Goal
  BY <1>0, <1>3 DEF TypeOK
<1> HIDE DEF Goal
<1>4. ASSUME NEW v \in Workers, NEW r, run' = [run EXCEPT ![v] = r],
             r.phase # "reporting" \/ r.verdict # "write_fenced"
      PROVE  Goal
  BY <1>2, <1>3, <1>4
<1>5. ASSUME NEW v \in Workers, NEW phase, phase # "reporting",
             run' = [run EXCEPT ![v] = Resting(phase)]
      PROVE  Goal
  BY <1>4, <1>5 DEF Resting
<1>6. ASSUME NEW v \in Workers, NEW lag \in Lags,
             \/ CommitSuccess(v, lag) \/ CommitFailure(v, lag) \/ ReportLoss(v)
             \/ StartWorker(v) \/ SeedLeases(v) \/ EnterLoop(v) \/ Crash(v)
      PROVE  Goal
  BY <1>5, <1>6
  DEF CommitSuccess, CommitFailure, ReportLoss, StartWorker, SeedLeases, EnterLoop, Crash
<1>7. ASSUME NEW v \in Workers, NEW j \in Jobs, NEW lag \in Lags, Claim(v, j, lag)
      PROVE  Goal
  BY <1>4, <1>7 DEF Claim
<1>8. ASSUME NEW v \in Workers, NEW verdict \in Verdicts, FinishAnalysis(v, verdict)
      PROVE  Goal
  <2>1. CASE run[v].lost
    BY <1>0, <1>4, <1>8, <2>1 DEF FinishAnalysis, Reporting, TypeOK, RunType
  <2>2. CASE ~run[v].lost
    BY <1>0, <1>4, <1>8, <2>2 DEF FinishAnalysis, TypeOK, RunType
  <2> QED
    BY <2>1, <2>2
<1>9. ASSUME NEW v \in Workers, NEW lag \in Lags, LoseLease(v, lag)
      PROVE  Goal
  BY <1>0, <1>4, <1>9 DEF LoseLease, TypeOK, RunType
<1>10. ASSUME NEW v \in Workers, CompletionRaises(v)
       PROVE  Goal
  BY <1>0, <1>4, <1>10 DEF CompletionRaises, TypeOK, RunType
<1>11. ASSUME NEW v \in Workers, NEW lag \in Lags, WriteFenced(v, lag)
       PROVE  Goal
  <2>1. CASE v = w
    BY <1>11, <2>1 DEF Goal
  <2>2. CASE v # w
    BY <1>2, <1>11, <2>2 DEF WriteFenced
  <2> QED
    BY <2>1, <2>2
<1>12. ASSUME NEW v \in Workers, NEW j \in Jobs, NEW lag \in Lags,
              \/ Reap(v, j, lag) \/ RecoverLegacy(v, j) \/ RecoverLapsed(v, j, lag)
              \/ RecoverOther(v, j, lag)
       PROVE  Goal
  BY <1>1, <1>12 DEF Reap, RecoverLegacy, RecoverLapsed, RecoverOther, Reconciled
<1>13. ASSUME NEW j \in Jobs, CreateVerification(j) \/ Retry(j)
       PROVE  Goal
  BY <1>1, <1>13 DEF CreateVerification, Retry
<1>14. ASSUME NEW r \in Requests, RetryWrite(r) \/ \E j \in Jobs : RetryCheck(r, j)
       PROVE  Goal
  BY <1>1, <1>14 DEF RetryWrite, RetryCheck
<1>15. ASSUME Tick \/ UNCHANGED vars
       PROVE  Goal
  BY <1>1, <1>15 DEF Tick, vars
<1>16. Lags # {}
  BY ConstantsAssumption DEF Lags
<1>17. ASSUME NEW v \in Workers, NEW lag \in Lags, Renew(v, lag)
       PROVE  Goal
  BY <1>1, <1>17 DEF Renew
<1>18. Goal
  BY <1>6, <1>7, <1>8, <1>9, <1>10, <1>11, <1>12, <1>13, <1>14, <1>15, <1>16, <1>17
  DEF Next, WorkerStep, ApiStep, Poll, Sweep, Heartbeat, Finish, TerminalWrite, Recover
<1> QED
  BY <1>18 DEF Goal

\* A lease whose token a worker holds belongs to that worker's name.
LEMMA OwnerIsClaimant ==
  ASSUME LeaseInv, OwnerHasAttempt, NEW w \in Workers, Busy(w),
         lease[run[w].job].generation = run[w].generation,
         lease[run[w].job].owner # NoWorker
  PROVE  lease[run[w].job].owner = WorkerId[w]
<1>1. PICK j \in Jobs : j = run[w].job
  BY DEF LeaseInv, ClaimIsKnown
<1>2. PICK a \in attempts : /\ a.job = j
                            /\ a.generation = lease[j].generation
                            /\ a.worker = lease[j].owner
  BY <1>1 DEF OwnerHasAttempt
<1>3. PICK b \in attempts : /\ b.job = j
                            /\ b.generation = lease[j].generation
                            /\ b.worker = WorkerId[w]
  BY <1>1 DEF LeaseInv, ClaimHasAttempt
<1>4. /\ a.number = lease[j].attempts /\ b.number = lease[j].attempts
      /\ a.number \in 1..lease[j].attempts
  BY <1>2, <1>3
  DEF LeaseInv, AttemptHistoryMatchesLease, CountersAgree, TypeOK, AttemptType, LeaseType,
      Generations
<1>5. a = b
  BY <1>2, <1>3, <1>4 DEF LeaseInv, AttemptHistoryMatchesLease
<1> QED
  BY <1>1, <1>2, <1>3, <1>5

\* A write is fenced only when the worker has no live lease.
LEMMA FencedStep ==
  ASSUME LeaseInv, OutcomeInv, [Next]_vars
  PROVE  FencedIsOver'
<1> SUFFICES ASSUME NEW w \in Workers,
                    run'[w].phase = "reporting", run'[w].verdict = "write_fenced",
                    LiveLease(run[w].job, run[w].generation)'
             PROVE  FALSE
  BY DEF FencedIsOver
<1>1. CASE run'[w] = run[w]
  <2>1. PICK j \in Jobs, g \in 1..MaxAttempts : j = run[w].job /\ g = run[w].generation
    BY <1>1 DEF LeaseInv, ClaimIsKnown, Busy
  <2>2. ~LiveLease(j, g) /\ LiveLease(j, g)'
    BY <1>1, <2>1 DEF OutcomeInv, FencedIsOver, LiveLease
  <2>3. g # lease[j].generation + 1
    <3>1. Busy(w)
      BY <1>1 DEF Busy
    <3> QED
      BY <2>1, <3>1, TokensBounded DEF LeaseInv
  <2>4. PICK v \in Workers : Current(v) /\ run[v].job = j /\ run[v].generation = g
    BY <2>2, <2>3, LiveAgain
  <2> QED
    BY <1>1, <2>1, <2>4 DEF LeaseInv, TokensDiffer, Current, Busy
<1>2. ASSUME NEW lag \in Lags, WriteFenced(w, lag)
      PROVE  FALSE
  <2>1. PICK j \in Jobs, g \in 1..MaxAttempts : j = run[w].job /\ g = run[w].generation
    BY <1>2 DEF LeaseInv, ClaimIsKnown, Busy, WriteFenced
  <2>2. run'[w].job = j /\ run'[w].generation = g /\ lease' = lease /\ status' = status
    BY <1>2, <2>1 DEF WriteFenced, Reporting, LeaseInv, TypeOK, RunType, jobVars
  <2>3. LiveLease(j, g)
    BY <2>2 DEF LiveLease
  <2>4. lease[j].owner # NoWorker /\ ~lease[j].dead
    BY <2>3
    DEF LiveLease, Unexpired, LeaseInv, LeaseFitsStatus, OutcomeInv, DeadIsNotRunning
  <2>5. lease[j].owner = WorkerId[w]
    BY <1>2, <2>1, <2>3, <2>4, OwnerIsClaimant
    DEF WriteFenced, Busy, LiveLease, OutcomeInv
  <2>6. Unexpired(lease[j], lag)
    <3>1. lease[j].ttl \in Int
      BY <2>3, ConstantsAssumption DEF LiveLease, Unexpired, LeaseInv, TypeOK, LeaseType
    <3> QED
      BY <2>3, <3>1, ConstantsAssumption DEF LiveLease, Unexpired, Lags
  <2> QED
    BY <1>2, <2>1, <2>3, <2>4, <2>5, <2>6 DEF WriteFenced, Fence, LiveLease
<1> QED
  BY <1>1, <1>2, FencedFrom

\* An attempt gets one outcome, and one beside a live lease tells of a worker
\* that gave it up.
LEMMA AgreeStep ==
  ASSUME LeaseInv, OutcomeInv, [Next]_vars
  PROVE  OutcomesAgree'
<1>1. OneOutcomePerAttempt'
  <2>1. CASE outcomes' = outcomes
    BY <2>1 DEF OutcomeInv, OutcomesAgree, OneOutcomePerAttempt
  <2>2. ASSUME NEW o, Recorded(o)
        PROVE  OneOutcomePerAttempt'
    BY <2>2 DEF OutcomeInv, OutcomesAgree, OneOutcomePerAttempt, Recorded, Settled
  <2> QED
    BY <2>1, <2>2, OutcomeStep
<1>2. ASSUME NEW o \in outcomes', LiveLease(o.job, o.generation)', o.job \in Jobs
      PROVE  o.disposition = "lease_lost"
  <2>1. CASE o \in outcomes
    <3>1. o.generation # lease[o.job].generation + 1
      BY <1>2, <2>1, TokensBounded DEF LeaseInv, TypeOK, OutcomeType
    <3>2. ~(\E v \in Workers : /\ Current(v)
                               /\ run[v].job = o.job /\ run[v].generation = o.generation)
      BY <2>1 DEF LeaseInv, CurrentClaimIsOpen, Settled
    <3>3. LiveLease(o.job, o.generation)
      BY <1>2, <3>1, <3>2, LiveAgain
    <3> QED
      BY <2>1, <3>3 DEF OutcomeInv, OutcomesAgree, OnlyLostLeaseOutlivesItsOutcome, Live,
         LiveLease
  <2>2. CASE o \notin outcomes
    <3>1. Recorded(o)
      BY <1>2, <2>2, OutcomeStep DEF Recorded
    <3>2. lease'[o.job].ttl # NoTime
      BY <1>2 DEF LiveLease, Unexpired
    <3>3. Reported(o)
      BY <3>1, <3>2 DEF Recorded
    <3>4. LiveLease(o.job, o.generation)
      BY <1>2, <3>3 DEF Reported, LiveLease
    <3> QED
      BY <3>3, <3>4 DEF Reported, OutcomeInv, FencedIsOver
  <2> QED
    BY <2>1, <2>2
<1>3. \A o \in outcomes' : o.job \in Jobs
  <2>1. TypeOK'
    BY TypeStep DEF LeaseInv
  <2> QED
    BY <2>1 DEF TypeOK, OutcomeType
<1>4. OnlyLostLeaseOutlivesItsOutcome'
  BY <1>2, <1>3 DEF OnlyLostLeaseOutlivesItsOutcome, Live, LiveLease
<1> QED
  BY <1>1, <1>4 DEF OutcomesAgree

\* However a worker, the reaper, a startup recovery and a fenced worker race,
\* an attempt gets one outcome, and beside a live lease it can only tell of a
\* worker that gave its lease up: no write is fenced, and no attempt expired,
\* that still held its lease.
THEOREM OutcomesAlwaysAgree == Spec => []OutcomesAgree
<1>1. Init => OutcomeInv
  BY DEF Init, MissingLease, FreshLease, Resting, OutcomeInv, DeadIsNotRunning,
     OwnerHasAttempt, FencedIsOver, OutcomesAgree, OneOutcomePerAttempt,
     OnlyLostLeaseOutlivesItsOutcome
<1>2. LeaseInv /\ OutcomeInv /\ [Next]_vars => OutcomeInv'
  BY DeadStep, OwnerStep, FencedStep, AgreeStep DEF OutcomeInv
<1>3. OutcomeInv => OutcomesAgree
  BY DEF OutcomeInv
<1> QED
  BY LeaseInvariant, <1>1, <1>2, <1>3, PTL DEF Spec
=============================================================================
