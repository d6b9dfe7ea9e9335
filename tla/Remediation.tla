------------------------------ MODULE Remediation ------------------------------
(***************************************************************************)
(* Finding cases from triage to closure (services/remediation.py) and what *)
(* the handlers of api/router.py and the saga of services/sealing.py do to *)
(* them.                                                                   *)
(*                                                                         *)
(* A request reads rows first and writes later.  Commands on a case write  *)
(* by compare-and-set on its version; the review of a job writes the rows  *)
(* its session loaded after it took the job.  SQLite lets one transaction  *)
(* write at a time (OneWriter); PostgreSQL locks only the rows written.    *)
(* What a command read before matters only if its update succeeds; then    *)
(* the case is still the one it read, so its reads are one step.           *)
(* The analysis of a job is what VerificationLifecycle says of it.         *)
(***************************************************************************)
EXTENDS Integers, FiniteSets, Sequences

CONSTANTS
  Jobs,        \* verifications: of first evidence, and of remediated work
  Cases,       \* findings the analyses may report
  Source,      \* the job whose result holds each finding
  Demo,        \* findings of synthetic results, scope "demo"
  Requests,    \* requests in progress at once
  Keys,        \* idempotency keys clients may use
  MaxRuns,     \* bound on the analyses of one job
  MaxAttempts, \* bound on the remediation attempts of one case
  OneWriter,   \* a writing transaction excludes all others
  NoJob, NoCase, NoKey

ASSUME RemediationAssumption ==
  /\ Source \in [Cases -> Jobs]
  /\ Demo \subseteq Cases
  /\ MaxRuns \in Nat \ {0}
  /\ MaxAttempts \in Nat
  /\ OneWriter \in BOOLEAN
  /\ Keys \subseteq Nat
  /\ NoJob \notin Jobs /\ NoCase \notin Cases /\ NoKey \notin Keys

VARIABLES
  status,      \* verification_jobs.status; "dead" is a closed failure
  runs,        \* analyses of each job so far
  result,      \* the analysis whose result is in result_json, 0 if none
  case,        \* finding_cases
  attempts,    \* remediation_attempts of each case, by attempt_no
  commands,    \* finding_case_commands
  seal,        \* seal_operations: state, and the remediation context frozen
               \* in the report content
  req,         \* what each request has read and is about to do
  changes      \* changes committed to each case so far

vars == <<status, runs, result, case, attempts, commands, seal, req, changes>>

CASE_STATUSES == {"pending_triage", "open", "remediation_in_progress",
                  "verification_pending", "closed", "dismissed"}
JobStates == {"absent", "queued", "failed", "dead", "needs_review", "sealing",
              "approved", "rejected"}
SealStates == {"none", "requested", "staged", "manual_attention", "completed"}
Resolutions == {"pending", "resolved", "not_resolved"}

NoContext == [case |-> NoCase, no |-> 0, status |-> "none", version |-> 0,
              resolution |-> "pending"]
NoFindingCase == [status |-> "absent", version |-> 0, active |-> 0,
                  result |-> 0, proof |-> NoJob]
NewAttempt == [job |-> NoJob, resolution |-> "pending", proof |-> NoJob]
Idle == [pc |-> "idle", command |-> "none", case |-> NoCase, job |-> NoJob,
         key |-> NoKey, seen |-> [c \in {} |-> NoFindingCase],
         resolution |-> "pending"]

\* the commands that _apply_case_command writes, and where they lead
TargetStatus == [finding_confirmed |-> "open", finding_dismissed |-> "dismissed",
                 remediation_started |-> "remediation_in_progress"]
CaseCommands == DOMAIN TargetStatus
Commands == CaseCommands \cup {"remediation_attempt_created", "bind", "approve",
                               "reject"}

Exists(c) == case[c].status # "absent"

\* validate_case_integrity: the case is a copy of a finding of its job's result
IsFaithful(c) == case[c].result # 0 /\ case[c].result = result[Source[c]]

\* <<c, n>>: attempt n of case c is the one verified by job j
AttemptsOf(j) ==
  {a \in Cases \X (1..MaxAttempts) :
     a[2] <= Len(attempts[a[1]]) /\ attempts[a[1]][a[2]].job = j}

\* remediation_context_for_job
Context(j) ==
  IF AttemptsOf(j) = {} THEN NoContext
  ELSE LET a == CHOOSE a \in AttemptsOf(j) : TRUE IN
       [case |-> a[1], no |-> a[2], status |-> case[a[1]].status,
        version |-> case[a[1]].version,
        resolution |-> attempts[a[1]][a[2]].resolution]

At(r, pc) == req[r].pc = pc
Finish(r) == req' = [req EXCEPT ![r] = Idle]

\* a review that has taken its job and not committed yet
Holds(r) == At(r, "holding")
MayWrite == OneWriter => \A r \in Requests : ~Holds(r)

CountChange(some) ==
  changes' = [c \in Cases |-> IF c \in some THEN changes[c] + 1 ELSE changes[c]]

-----------------------------------------------------------------------------
Init ==
  /\ status = [j \in Jobs |-> "absent"]
  /\ runs = [j \in Jobs |-> 0]
  /\ result = [j \in Jobs |-> 0]
  /\ case = [c \in Cases |-> NoFindingCase]
  /\ attempts = [c \in Cases |-> <<>>]
  /\ commands = {}
  /\ seal = [j \in Jobs |-> [state |-> "none", frozen |-> NoContext]]
  /\ req = [r \in Requests |-> Idle]
  /\ changes = [c \in Cases |-> 0]

-----------------------------------------------------------------------------
(* Analyses                                                                 *)

\* an upload that is not the re-verification of an attempt
Submit(j) ==
  /\ MayWrite
  /\ status[j] = "absent"
  /\ status' = [status EXCEPT ![j] = "queued"]
  /\ UNCHANGED <<runs, result, case, attempts, commands, seal, req, changes>>

\* the result is stored, and a case for every finding but notices and infos
FinishAnalysis(j, found) ==
  /\ MayWrite
  /\ status[j] = "queued" /\ runs[j] < MaxRuns
  /\ \A c \in found : Source[c] = j /\ ~Exists(c)
  /\ runs' = [runs EXCEPT ![j] = @ + 1]
  /\ result' = [result EXCEPT ![j] = runs[j] + 1]
  /\ status' = [status EXCEPT ![j] = "needs_review"]
  /\ case' = [c \in Cases |->
                IF c \in found
                THEN [NoFindingCase EXCEPT !.status = "pending_triage",
                                           !.result = runs[j] + 1]
                ELSE case[c]]
  /\ UNCHANGED <<attempts, commands, seal, req, changes>>

FailAnalysis(j, final) ==
  /\ MayWrite
  /\ status[j] = "queued" /\ runs[j] < MaxRuns
  /\ runs' = [runs EXCEPT ![j] = @ + 1]
  /\ status' = [status EXCEPT ![j] = IF final \/ runs'[j] = MaxRuns
                                     THEN "dead" ELSE "failed"]
  /\ UNCHANGED <<result, case, attempts, commands, seal, req, changes>>

Retry(j) ==
  /\ MayWrite
  /\ status[j] = "failed"
  /\ status' = [status EXCEPT ![j] = "queued"]
  /\ result' = [result EXCEPT ![j] = 0]
  /\ UNCHANGED <<runs, case, attempts, commands, seal, req, changes>>

-----------------------------------------------------------------------------
(* Commands on a case                                                       *)

\* idempotency keys are opaque: a client takes one nobody used, or repeats one
Known == ({m.key : m \in commands} \cup {req[r].key : r \in Requests}) \ {NoKey}
MayUse(k) == k \in Known \/ \A l \in Keys : l < k => l \in Known

\* _command_replay finds the key used, for this very command or for another
\* one; either way nothing is written
IsKnown(k) == \E m \in commands : m.key = k

\* a command that passes the checks of its handler; one that does not is
\* answered and changes nothing
Receive(r, command, c, k) ==
  /\ At(r, "idle")
  /\ Exists(c) /\ IsFaithful(c)
  /\ MayUse(k) /\ ~IsKnown(k)
  /\ req' = [req EXCEPT ![r] =
               [Idle EXCEPT !.pc = "checked", !.command = command, !.case = c,
                            !.key = k, !.seen = [d \in {c} |-> case[d]]]]
  /\ UNCHANGED <<status, runs, result, case, attempts, commands, seal, changes>>

Loaded(r) == req[r].seen[req[r].case]

\* triage_case; demonstrations may be triaged after their approval
ReceiveTriage(r, c, k, command) ==
  /\ command \in {"finding_confirmed", "finding_dismissed"}
  /\ status[Source[c]] \in {"needs_review"} \cup
       (IF c \in Demo THEN {"approved"} ELSE {})
  /\ case[c].status = "pending_triage"
  /\ Receive(r, command, c, k)

\* start_remediation
ReceiveStart(r, c, k) ==
  /\ status[Source[c]] = "approved"
  /\ case[c].status = "open"
  /\ Receive(r, "remediation_started", c, k)

\* create_remediation_attempt up to its conditional update
ReceiveAttempt(r, c, k) ==
  /\ case[c].status = "remediation_in_progress"
  /\ \A n \in DOMAIN attempts[c] : attempts[c][n].resolution # "pending"
  /\ Len(attempts[c]) < MaxAttempts
  /\ Receive(r, "remediation_attempt_created", c, k)

\* UPDATE ... WHERE id = case AND version = expected, and the primary key of
\* the command row
(* Mutant: the update does not test the version. *)
WinsAlways(r) == TRUE

Wins(r) == case[req[r].case].version = Loaded(r).version

Commits(r) == Wins(r) /\ ~IsKnown(req[r].key)

CommandRow(r) == [key |-> req[r].key, case |-> req[r].case,
                  command |-> req[r].command, version |-> Loaded(r).version + 1]

\* _apply_case_command; a command that loses rolls back
WriteCommand(r) ==
  LET c == req[r].case IN
  /\ At(r, "checked") /\ req[r].command \in CaseCommands
  /\ MayWrite
  /\ IF Commits(r)
     THEN /\ case' = [case EXCEPT ![c].status = TargetStatus[req[r].command],
                                  ![c].version = Loaded(r).version + 1]
          /\ commands' = commands \cup {CommandRow(r)}
          /\ CountChange({c})
     ELSE UNCHANGED <<case, commands, changes>>
  /\ Finish(r)
  /\ UNCHANGED <<status, runs, result, attempts, seal>>

\* create_remediation_attempt
WriteAttempt(r) ==
  LET c == req[r].case IN
  /\ At(r, "checked") /\ req[r].command = "remediation_attempt_created"
  /\ MayWrite
  /\ IF Commits(r)
     THEN /\ case' = [case EXCEPT ![c].active = Len(attempts[c]) + 1,
                                  ![c].version = Loaded(r).version + 1]
          /\ attempts' = [attempts EXCEPT ![c] =
                Append(@, NewAttempt)]
          /\ commands' = commands \cup {CommandRow(r)}
          /\ CountChange({c})
     ELSE UNCHANGED <<case, attempts, commands, changes>>
  /\ Finish(r)
  /\ UNCHANGED <<status, runs, result, seal>>

\* the upload of a re-verification: the attempt and its case are validated,
\* then the file is received, which takes a while
ReceiveUpload(r, c) ==
  /\ At(r, "idle")
  /\ case[c].status = "remediation_in_progress" /\ case[c].active # 0
  /\ IsFaithful(c)
  /\ attempts[c][case[c].active].resolution = "pending"
  /\ attempts[c][case[c].active].job = NoJob
  /\ req' = [req EXCEPT ![r] =
               [Idle EXCEPT !.pc = "checked", !.command = "bind", !.case = c,
                            !.seen = [d \in {c} |-> case[d]]]]
  /\ UNCHANGED <<status, runs, result, case, attempts, commands, seal, changes>>

\* the two conditional updates of bind_attempt_to_verification
Binds(r) ==
  LET c == req[r].case
      try == attempts[c][Loaded(r).active] IN
  /\ try.resolution = "pending" /\ try.job = NoJob
  /\ case[c].status = "remediation_in_progress"
  /\ case[c].active = Loaded(r).active
  /\ case[c].version = Loaded(r).version

\* the end of create_verification.  The binding that comes too late is rolled
\* back with its new job, which takes up none of Jobs.
WriteBinding(r, j) ==
  LET c == req[r].case IN
  /\ At(r, "checked") /\ req[r].command = "bind"
  /\ MayWrite
  /\ IF Binds(r)
     THEN /\ status[j] = "absent"
          /\ status' = [status EXCEPT ![j] = "queued"]
          /\ attempts' = [attempts EXCEPT ![c][Loaded(r).active].job = j]
          /\ case' = [case EXCEPT ![c].status = "verification_pending",
                                  ![c].version = Loaded(r).version + 1]
          /\ CountChange({c})
     ELSE UNCHANGED <<status, attempts, case, changes>>
  /\ Finish(r)
  /\ UNCHANGED <<runs, result, commands, seal>>

-----------------------------------------------------------------------------
(* Reviews                                                                  *)

(* Mutant: the scopes are swapped in the count. *)
UntriagedDemo(j) ==
  {c \in Demo : Source[c] = j /\ case[c].status = "pending_triage"}

Untriaged(j) ==
  {c \in Cases \ Demo : Source[c] = j /\ case[c].status = "pending_triage"}

\* review_verification up to its conditional update.  The resolution is the
\* one prepare_remediation_review accepts: none without an attempt, an
\* explicit one with an approval, "not resolved" with a rejection.
ReceiveReview(r, j, decision, resolution) ==
  /\ At(r, "idle")
  /\ status[j] = "needs_review"
  /\ resolution \in (IF AttemptsOf(j) = {} THEN {"pending"}
                     ELSE IF decision = "approve" THEN {"resolved", "not_resolved"}
                     ELSE {"not_resolved"})
  /\ decision = "approve" => Untriaged(j) = {}
  /\ req' = [req EXCEPT ![r] =
               [Idle EXCEPT !.pc = "reviewing", !.command = decision, !.job = j,
                            !.resolution = resolution]]
  /\ UNCHANGED <<status, runs, result, case, attempts, commands, seal, changes>>

\* prepare_remediation_review: the case waits for the verification under review
AwaitsReview(a) ==
  /\ IsFaithful(a[1])
  /\ attempts[a[1]][a[2]].resolution = "pending"
  /\ case[a[1]].status = "verification_pending" /\ case[a[1]].active = a[2]

\* dismiss_cases_for_rejected_job
DismissalFits(j) ==
  \A c \in Cases : Source[c] = j /\ Exists(c) =>
    IsFaithful(c) /\ case[c].status \in {"pending_triage", "open", "dismissed"}

\* the update of the job takes its row; other reviews of it wait.  Then the
\* session loads the cases it is going to write.
TakeJob(r) ==
  LET j == req[r].job
      mine == {a[1] : a \in AttemptsOf(j)} \cup
              {c \in Cases : Source[c] = j /\ Exists(c) /\ req[r].command = "reject"}
  IN
  /\ At(r, "reviewing")
  /\ MayWrite
  /\ \A q \in Requests : ~(Holds(q) /\ req[q].job = j)
  /\ IF /\ status[j] = "needs_review"
        /\ \A a \in AttemptsOf(j) : AwaitsReview(a)
        /\ req[r].command = "reject" => DismissalFits(j)
     THEN req' = [req EXCEPT ![r].pc = "holding",
                             ![r].seen = [c \in mine |-> case[c]]]
     ELSE Finish(r)
  /\ UNCHANGED <<status, runs, result, case, attempts, commands, seal, changes>>

\* the attempt a review decides on gets its resolution
Resolve(j, resolution) ==
  attempts' = [c \in Cases |-> [n \in DOMAIN attempts[c] |->
                 IF <<c, n>> \in AttemptsOf(j)
                 THEN [attempts[c][n] EXCEPT !.resolution = resolution]
                 ELSE attempts[c][n]]]

\* approval: the operation is made with the report it is going to publish
CommitApproval(r) ==
  LET j == req[r].job IN
  /\ Holds(r) /\ req[r].command = "approve"
  /\ status' = [status EXCEPT ![j] = "sealing"]
  /\ Resolve(j, req[r].resolution)
  /\ seal' = [seal EXCEPT ![j] =
        [state |-> "requested",
         frozen |-> [Context(j) EXCEPT !.resolution = req[r].resolution]]]
  /\ Finish(r)
  /\ UNCHANGED <<runs, result, case, commands, changes>>

\* what the flush writes: the columns changed on the copies that were loaded
Dismissed(r) == {c \in DOMAIN req[r].seen :
                   Source[c] = req[r].job /\ req[r].seen[c].status # "dismissed"}
Reopened(r) == {a[1] : a \in AttemptsOf(req[r].job)}

(* Mutant: a rejection leaves the attempt it decided on active. *)
CommitRejectionKeepsActive(r) ==
  /\ Holds(r) /\ req[r].command = "reject"
  /\ status' = [status EXCEPT ![req[r].job] = "rejected"]
  /\ Resolve(req[r].job, "not_resolved")
  /\ case' = [c \in Cases |->
       IF c \in Reopened(r)
       THEN [case[c] EXCEPT !.status = "remediation_in_progress",
                            !.version = req[r].seen[c].version + 1]
       ELSE IF c \in Dismissed(r)
       THEN [case[c] EXCEPT !.status = "dismissed",
                            !.version = req[r].seen[c].version + 1]
       ELSE case[c]]
  /\ CountChange(Reopened(r) \cup Dismissed(r))
  /\ Finish(r)
  /\ UNCHANGED <<runs, result, commands, seal>>

CommitRejection(r) ==
  /\ Holds(r) /\ req[r].command = "reject"
  /\ status' = [status EXCEPT ![req[r].job] = "rejected"]
  /\ Resolve(req[r].job, "not_resolved")
  /\ case' = [c \in Cases |->
       IF c \in Reopened(r)
       THEN [case[c] EXCEPT !.status = "remediation_in_progress", !.active = 0,
                            !.version = req[r].seen[c].version + 1]
       ELSE IF c \in Dismissed(r)
       THEN [case[c] EXCEPT !.status = "dismissed",
                            !.version = req[r].seen[c].version + 1]
       ELSE case[c]]
  /\ CountChange(Reopened(r) \cup Dismissed(r))
  /\ Finish(r)
  /\ UNCHANGED <<runs, result, commands, seal>>

-----------------------------------------------------------------------------
(* The saga                                                                 *)

SetAside(j) == seal' = [seal EXCEPT ![j].state = "manual_attention"]

\* validate_frozen_remediation_context, before anything is staged
Stage(j) ==
  /\ MayWrite
  /\ seal[j].state = "requested"
  /\ IF Context(j) = seal[j].frozen
     THEN seal' = [seal EXCEPT ![j].state = "staged"]
     ELSE SetAside(j)
  /\ UNCHANGED <<status, runs, result, case, attempts, commands, req, changes>>

Sealable(j) ==
  /\ status[j] = "sealing"
  /\ \A a \in AttemptsOf(j) :
       /\ attempts[a[1]][a[2]].resolution # "pending"
       /\ attempts[a[1]][a[2]].proof = NoJob

(* Mutant: the version is not counted up when the case closes. *)
CompleteKeepsVersion(j) ==
  LET mine == {a[1] : a \in AttemptsOf(j)} IN
  /\ MayWrite
  /\ seal[j].state = "staged" /\ Sealable(j)
  /\ status' = [status EXCEPT ![j] = "approved"]
  /\ seal' = [seal EXCEPT ![j].state = "completed"]
  /\ attempts' = [c \in Cases |-> [n \in DOMAIN attempts[c] |->
       IF <<c, n>> \in AttemptsOf(j) THEN [attempts[c][n] EXCEPT !.proof = j]
       ELSE attempts[c][n]]]
  /\ case' = [c \in Cases |->
       IF c \notin mine THEN case[c]
       ELSE IF seal[j].frozen.resolution = "resolved"
       THEN [case[c] EXCEPT !.status = "closed", !.active = 0, !.proof = j]
       ELSE [case[c] EXCEPT !.status = "remediation_in_progress", !.active = 0]]
  /\ CountChange(mine)
  /\ UNCHANGED <<runs, result, commands, req>>

\* the last commit of the saga, with finalize_remediation_after_seal in it
Complete(j) ==
  LET mine == {a[1] : a \in AttemptsOf(j)} IN
  /\ MayWrite
  /\ seal[j].state = "staged"
  /\ IF Sealable(j)
     THEN /\ status' = [status EXCEPT ![j] = "approved"]
          /\ seal' = [seal EXCEPT ![j].state = "completed"]
          /\ attempts' = [c \in Cases |-> [n \in DOMAIN attempts[c] |->
               IF <<c, n>> \in AttemptsOf(j)
               THEN [attempts[c][n] EXCEPT !.proof = j] ELSE attempts[c][n]]]
          /\ case' = [c \in Cases |->
               IF c \notin mine THEN case[c]
               ELSE IF \E n \in DOMAIN attempts[c] :
                         attempts[c][n].job = j /\ attempts[c][n].resolution = "resolved"
               THEN [case[c] EXCEPT !.status = "closed", !.active = 0,
                                    !.proof = j, !.version = @ + 1]
               ELSE [case[c] EXCEPT !.status = "remediation_in_progress",
                                    !.active = 0, !.version = @ + 1]]
          /\ CountChange(mine)
     ELSE /\ SetAside(j)
          /\ UNCHANGED <<status, attempts, case, changes>>
  /\ UNCHANGED <<runs, result, commands, req>>

-----------------------------------------------------------------------------
(* The scan of readiness                                                    *)

\* _validate_closed_case_graph: the closing attempt, its sealed verification
\* and the snapshot in the archive agree with the case
IsClosedProperly(c) ==
  \E n \in DOMAIN attempts[c] :
    LET try == attempts[c][n]
        frozen == seal[try.job].frozen IN
    /\ case[c].active = 0
    /\ {m \in DOMAIN attempts[c] : attempts[c][m].proof = case[c].proof} = {n}
    /\ try.proof # NoJob /\ try.job = try.proof
    /\ try.resolution = "resolved"
    /\ status[try.job] = "approved"
    /\ frozen = [case |-> c, no |-> n, status |-> "verification_pending",
                 version |-> case[c].version - 1, resolution |-> "resolved"]

\* validate_remediation_graph
IsIntact(c) ==
  LET tries == attempts[c]
      active == case[c].active
      pending == {n \in DOMAIN tries : tries[n].resolution = "pending"} IN
  /\ IsFaithful(c)
  /\ \A n \in DOMAIN tries : tries[n].proof # NoJob => tries[n].proof = tries[n].job
  /\ active = 0 \/ active \in DOMAIN tries
  /\ CASE case[c].status = "verification_pending" ->
            active # 0 /\ tries[active].job # NoJob
       [] case[c].status \in {"pending_triage", "open", "dismissed"} ->
            active = 0 /\ tries = <<>>
       [] case[c].status = "remediation_in_progress" ->
            IF active = 0 THEN pending = {}
            ELSE active \in pending /\ tries[active].job = NoJob
       [] case[c].status = "closed" -> IsClosedProperly(c)

-----------------------------------------------------------------------------
Next ==
  \/ \E j \in Jobs :
       \/ Submit(j) \/ Retry(j) \/ Stage(j) \/ Complete(j)
       \/ \E found \in SUBSET Cases : FinishAnalysis(j, found)
       \/ \E final \in BOOLEAN : FailAnalysis(j, final)
  \/ \E r \in Requests :
       \/ WriteCommand(r) \/ WriteAttempt(r)
       \/ TakeJob(r) \/ CommitApproval(r) \/ CommitRejection(r)
       \/ \E c \in Cases :
            \/ ReceiveUpload(r, c)
            \/ \E k \in Keys :
                 \/ \E command \in CaseCommands : ReceiveTriage(r, c, k, command)
                 \/ ReceiveStart(r, c, k) \/ ReceiveAttempt(r, c, k)
       \/ \E j \in Jobs :
            \/ WriteBinding(r, j)
            \/ \E decision \in {"approve", "reject"}, resolution \in Resolutions :
                 ReceiveReview(r, j, decision, resolution)

Spec == Init /\ [][Next]_vars

-----------------------------------------------------------------------------
(* Properties                                                               *)

\* the type of the rows and of what a request remembers
TypeOK ==
  LET FindingCase == [status : CASE_STATUSES \cup {"absent"}, version : Nat,
                      active : 0..MaxAttempts, result : 0..MaxRuns,
                      proof : Jobs \cup {NoJob}]
      Attempt == [job : Jobs \cup {NoJob}, resolution : Resolutions,
                  proof : Jobs \cup {NoJob}]
  IN
  /\ status \in [Jobs -> JobStates]
  /\ runs \in [Jobs -> 0..MaxRuns] /\ result \in [Jobs -> 0..MaxRuns]
  /\ case \in [Cases -> FindingCase]
  /\ \A c \in Cases : attempts[c] \in Seq(Attempt) /\ Len(attempts[c]) <= MaxAttempts
  /\ commands \subseteq [key : Keys, case : Cases, command : Commands, version : Nat]
  /\ \A j \in Jobs : seal[j].state \in SealStates
  /\ changes \in [Cases -> Nat]
  /\ \A r \in Requests :
       /\ req[r].pc \in {"idle", "checked", "reviewing", "holding"}
       /\ DOMAIN req[r].seen \subseteq Cases

\* Readiness finds every case in order, whatever requests ran into each other:
\* each state of a case goes with the attempts it has, and a closed case with
\* exactly one sealed attempt whose archive shows the case just before
\* (scan_remediation_integrity).
EveryCaseIsIntact == \A c \in Cases : Exists(c) => IsIntact(c)

\* Between the approval of a re-verification and its last commit nothing else
\* changes its case: the saga never meets a context that differs from the
\* one in the report (validate_frozen_remediation_context).
FrozenContextHolds ==
  \A j \in Jobs : status[j] = "sealing" =>
    seal[j].frozen = Context(j) /\ seal[j].state # "manual_attention"

\* What the code reads of a case long after it was written is in order: the
\* scan of readiness accepts every case, and a saga finds the case it froze.
CasesAreSound == TypeOK /\ EveryCaseIsIntact /\ FrozenContextHolds

\* No approval passes over an operational finding nobody looked at, and a
\* rejection leaves no case of the job behind, although triages and reviews
\* read each other's rows before they write (review_verification,
\* triage_case, dismiss_cases_for_rejected_job).
ReviewedSourceIsDecided ==
  \A c \in Cases : Exists(c) =>
    /\ status[Source[c]] \in {"sealing", "approved"} =>
         c \in Demo \/ case[c].status # "pending_triage"
    /\ status[Source[c]] = "rejected" => case[c].status = "dismissed"

\* A case that may still be commanded has had one change for each version, on
\* which the compare-and-set of every command relies ("Idempotency and ordered
\* transition evidence for a finding case", models.py).  A rejection may
\* overwrite a triage that committed while it held its job, so two changes of
\* a dismissed case can have one version.
LiveVersionNamesOneChange ==
  \A c \in Cases : case[c].status # "dismissed" => case[c].version = changes[c]

Lifecycle == INSTANCE FindingLifecycle WITH
  stage <- [c \in Cases |-> case[c].status],
  verifier <- [c \in Cases |->
                 IF case[c].status = "verification_pending"
                 THEN attempts[c][case[c].active].job ELSE NoJob],
  used <- {j \in Jobs : AttemptsOf(j) # {}},
  closure <- [c \in Cases |-> case[c].proof]

\* The handlers and the saga together move a case as FindingLifecycle says: by
\* one decision at a time, each verification serving one case once, closed
\* only by the verification it waited for.
ImplementsFindingLifecycle == Lifecycle!Spec
=============================================================================
