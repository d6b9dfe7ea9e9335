----------------------------- MODULE SealingSaga -----------------------------
(***************************************************************************)
(* The sealing saga: an approved job's report files, ZIP archive, proof    *)
(* ledger row and database rows are published without a common transaction *)
(* (src/backend/app/services/sealing.py and the review handler of          *)
(* api/router.py).                                                         *)
(*                                                                         *)
(* One action is one database commit or one file operation; a crash or an  *)
(* I/O error may fall between any two.  A session is one request or one    *)
(* startup recovery.  SQLAlchemy's identity map with expire_on_commit off  *)
(* is modelled: a session works on the row it loaded, writes back the      *)
(* columns it changed and reads the database again only where the code     *)
(* says populate_existing or opens a new session.                          *)
(***************************************************************************)
EXTENDS Integers, FiniteSets, Sequences

CONSTANTS
  Jobs,        \* jobs up for review; a job has at most one seal operation
  Sessions,    \* requests and recoveries that may be in progress at once
  MaxFaults,   \* bound on crashes, I/O errors, lost files, source changes
  Meddling,    \* files and rows may be changed from outside while a saga
               \* runs: the sources of a job, and the scratch files of the saga
  NoJob

ASSUME SagaAssumption ==
  /\ NoJob \notin Jobs
  /\ MaxFaults \in Nat
  /\ Meddling \in BOOLEAN

VARIABLES
  job,         \* verification_jobs.status, from needs_review on
  oper,        \* seal_operations: state, last_error, digests and ledger row
  rows,        \* jobs whose report, proof and approval audit rows exist
  staged,      \* files of each job in its staging directory
  published,   \* files of each job in the report and archive directories
  ledger,      \* proof-ledger.jsonl, each line by the job it seals
  changed,     \* sources of a job that are no longer what was frozen
  misread,     \* jobs a read error was taken for damage of (a history variable)
  sess,        \* what each session is doing
  faults       \* faults so far

vars == <<job, oper, rows, staged, published, ledger, changed, misread, sess,
          faults>>
dbVars == <<job, oper, rows>>
fileVars == <<staged, published, ledger>>
outside == <<changed, misread>>

\* the evidence file, and the rows the frozen report was made from
Sources == {"evidence", "records"}

\* the order in which files are written and moved
Files == <<"json", "html", "zip">>
AllFiles == {"json", "html", "zip"}

(* Mutant: a state is missing from the resumable ones. *)
ResumableForgetsLedger == {"requested", "artifacts_staged", "files_published"}

\* RESUMABLE_SEAL_STATES
Resumable == {"requested", "artifacts_staged", "files_published",
              "ledger_appended"}
OperStates == Resumable \cup {"none", "completed", "manual_attention"}
JobStates == {"needs_review", "sealing", "approved", "rejected"}

NoOperation == [state |-> "none", error |-> FALSE, digests |-> FALSE, row |-> 0]

-----------------------------------------------------------------------------
(* Sessions                                                                 *)

Idle == [pc |-> "idle", job |-> NoJob, snap |-> NoOperation, fresh |-> FALSE,
         n |-> 0, view |-> <<>>]

\* pcs at which a session holds the lock file of its operation
Locked == {"begin", "staging", "publishing", "moving", "ledger", "appending",
           "recorded", "completing", "checking", "failing", "integrity"}
Pcs == Locked \cup {"idle", "waiting"}

At(s, pc) == sess[s].pc = pc

LockFree(j) == \A s \in Sessions : sess[s].job = j => sess[s].pc \notin Locked

(* Mutant: the ledger is read and rewritten without its lock. *)
LedgerFreeForAnyone == TRUE

LedgerFree == \A s \in Sessions : sess[s].pc # "appending"

\* the next block of resume_seal_operation, by the state the session holds
NextPc(state) ==
  CASE state = "requested" -> "staging"
    [] state = "artifacts_staged" -> "publishing"
    [] state = "files_published" -> "ledger"
    [] state = "ledger_appended" -> "completing"
    [] OTHER -> "checking"

GoTo(s, pc) == sess' = [sess EXCEPT ![s].pc = pc, ![s].n = 0]

\* the session commits the columns it changed: the state unless it is the one
\* it held, and the digests and the row once it has them
CommitOperation(s, held, next) ==
  LET j == sess[s].job IN
  /\ oper' = [oper EXCEPT
                ![j].state = IF held.state = sess[s].snap.state THEN @ ELSE held.state,
                ![j].digests = @ \/ held.digests,
                ![j].row = IF held.row = 0 THEN @ ELSE held.row]
  /\ sess' = [sess EXCEPT ![s].snap = held, ![s].pc = next, ![s].n = 0]

-----------------------------------------------------------------------------
Init ==
  /\ job = [j \in Jobs |-> "needs_review"]
  /\ oper = [j \in Jobs |-> NoOperation]
  /\ rows = {}
  /\ staged = [j \in Jobs |-> {}]
  /\ published = [j \in Jobs |-> {}]
  /\ ledger = <<>>
  /\ changed = {}
  /\ misread = {}
  /\ sess = [s \in Sessions |-> Idle]
  /\ faults = 0

(* review_verification: the first approval, a rejection, a repeated approval *)

(* Mutant: the job is approved by the review, before anything is sealed. *)
ApproveAtOnce(s, j) ==
  LET requested == [NoOperation EXCEPT !.state = "requested"] IN
  /\ At(s, "idle")
  /\ job[j] = "needs_review"
  /\ job' = [job EXCEPT ![j] = "approved"]
  /\ oper' = [oper EXCEPT ![j] = requested]
  /\ sess' = [sess EXCEPT ![s] = [Idle EXCEPT !.pc = "waiting", !.job = j,
                                              !.snap = requested]]
  /\ UNCHANGED <<rows, fileVars, outside, faults>>

\* the conditional update and the new operation are one commit
Approve(s, j) ==
  LET requested == [NoOperation EXCEPT !.state = "requested"] IN
  /\ At(s, "idle")
  /\ job[j] = "needs_review"
  /\ job' = [job EXCEPT ![j] = "sealing"]
  /\ oper' = [oper EXCEPT ![j] = requested]
  /\ sess' = [sess EXCEPT ![s] = [Idle EXCEPT !.pc = "waiting", !.job = j,
                                              !.snap = requested]]
  /\ UNCHANGED <<rows, fileVars, outside, faults>>

Reject(s, j) ==
  /\ At(s, "idle")
  /\ job[j] = "needs_review"
  /\ job' = [job EXCEPT ![j] = "rejected"]
  /\ UNCHANGED <<oper, rows, fileVars, outside, sess, faults>>

\* the operation is loaded here, before its lock is taken
RepeatApproval(s, j) ==
  /\ At(s, "idle")
  /\ \/ job[j] = "sealing"
     \/ job[j] = "approved" /\ oper[j].state = "completed"
  /\ sess' = [sess EXCEPT ![s] = [Idle EXCEPT !.pc = "waiting", !.job = j,
                                              !.snap = oper[j]]]
  /\ UNCHANGED <<dbVars, fileVars, outside, faults>>

\* recover_seal_operations at startup: a new database session per operation
StartRecovery(s, j) ==
  /\ At(s, "idle")
  /\ oper[j].state \in Resumable
  /\ sess' = [sess EXCEPT ![s] = [Idle EXCEPT !.pc = "waiting", !.job = j,
                                              !.fresh = TRUE]]
  /\ UNCHANGED <<dbVars, fileVars, outside, faults>>

-----------------------------------------------------------------------------
(* resume_seal_operation                                                    *)

\* a busy lock is a 409; an operation held as manual_attention is refused
Lock(s) ==
  LET j == sess[s].job
      held == IF sess[s].fresh THEN oper[j] ELSE sess[s].snap
  IN
  /\ At(s, "waiting")
  /\ sess' = [sess EXCEPT ![s] =
       IF ~LockFree(j) \/ held.state = "manual_attention" THEN Idle
       ELSE [@ EXCEPT !.snap = held,
                      !.pc = IF held.state = "completed" THEN "checking"
                             ELSE "begin"]]
  /\ UNCHANGED <<dbVars, fileVars, outside, faults>>

\* attempt_count += 1, last_error = None, commit
Begin(s) ==
  LET j == sess[s].job IN
  /\ At(s, "begin")
  /\ oper' = [oper EXCEPT ![j].error = @ /\ ~sess[s].snap.error]
  /\ sess' = [sess EXCEPT ![s].snap.error = FALSE,
                          ![s].pc = NextPc(sess[s].snap.state)]
  /\ UNCHANGED <<job, rows, fileVars, outside, faults>>

\* _build_staged_artifacts: the evidence file is validated before the first
\* file is written and again when it is copied into the archive; the rows are
\* compared with the frozen report once, before the first file
EvidenceRead(s) == sess[s].n \in {0, 2}

EvidenceChanged(j) == <<j, "evidence">> \in changed
RecordsChanged(j) == <<j, "records">> \in changed

StageFile(s) ==
  LET j == sess[s].job
      n == sess[s].n + 1
  IN
  /\ At(s, "staging") /\ sess[s].n < Len(Files)
  /\ EvidenceRead(s) => ~EvidenceChanged(j)
  /\ sess[s].n = 0 => ~RecordsChanged(j)
  /\ staged' = [staged EXCEPT ![j] = @ \cup {Files[n]}]
  /\ sess' = [sess EXCEPT ![s].n = n]
  /\ UNCHANGED <<dbVars, published, ledger, outside, faults>>

\* StoredFileIntegrityError is no SealIntegrityError: an ordinary failure
StageRefused(s) ==
  /\ At(s, "staging") /\ EvidenceRead(s)
  /\ EvidenceChanged(sess[s].job)
  /\ GoTo(s, "failing")
  /\ UNCHANGED <<dbVars, fileVars, outside, faults>>

\* the baseline's digest or the frozen snapshot does not fit the rows
StageMismatch(s) ==
  /\ At(s, "staging") /\ sess[s].n = 0
  /\ RecordsChanged(sess[s].job)
  /\ GoTo(s, "integrity")
  /\ UNCHANGED <<dbVars, fileVars, outside, faults>>

\* a set staged again because it was missing is published without a new check
StageCommit(s) ==
  LET first == sess[s].snap.state = "requested" IN
  /\ At(s, "staging") /\ sess[s].n = Len(Files)
  /\ CommitOperation(s, [sess[s].snap EXCEPT !.state = "artifacts_staged",
                                             !.digests = TRUE],
                     IF first THEN NextPc("artifacts_staged") ELSE "moving")
  /\ UNCHANGED <<job, rows, fileVars, outside, faults>>

(* Mutant: a staging directory that was lost is not built again. *)
NeverStageAgain(j) == FALSE

\* _publish_artifacts: neither a full staging directory nor a published set
StageAgain(j) == staged[j] # AllFiles /\ published[j] # AllFiles

PublishCheck(s) ==
  /\ At(s, "publishing")
  /\ GoTo(s, IF ~sess[s].snap.digests THEN "integrity"
             ELSE IF StageAgain(sess[s].job) THEN "staging" ELSE "moving")
  /\ UNCHANGED <<dbVars, fileVars, outside, faults>>

\* _publish_one: a published file with the right digest is kept
PublishFile(s) ==
  LET j == sess[s].job
      f == Files[sess[s].n + 1]
  IN
  /\ At(s, "moving") /\ sess[s].n < Len(Files)
  /\ f \in published[j] \cup staged[j]
  /\ published' = [published EXCEPT ![j] = @ \cup {f}]
  /\ staged' = [staged EXCEPT ![j] = @ \ {f}]
  /\ sess' = [sess EXCEPT ![s].n = @ + 1]
  /\ UNCHANGED <<dbVars, ledger, outside, faults>>

PublishMissing(s) ==
  LET j == sess[s].job IN
  /\ At(s, "moving") /\ sess[s].n < Len(Files)
  /\ Files[sess[s].n + 1] \notin published[j] \cup staged[j]
  /\ GoTo(s, "integrity")
  /\ UNCHANGED <<dbVars, fileVars, outside, faults>>

PublishCommit(s) ==
  /\ At(s, "moving") /\ sess[s].n = Len(Files)
  /\ CommitOperation(s, [sess[s].snap EXCEPT !.state = "files_published"],
                     NextPc("files_published"))
  /\ UNCHANGED <<job, rows, fileVars, outside, faults>>

\* _publish_ledger, under proof-ledger.lock: the rows are read and validated
LedgerRead(s) ==
  /\ At(s, "ledger")
  /\ LedgerFree
  /\ sess' = [sess EXCEPT ![s].pc = "appending", ![s].view = ledger]
  /\ UNCHANGED <<dbVars, fileVars, outside, faults>>

RowsOf(view, j) == {i \in DOMAIN view : view[i] = j}

(* Mutant: the archive is appended without looking for an earlier row. *)
WithRowAlways(view, j) == Append(view, j)

\* an archive that has its row keeps it; any other is appended
WithRow(view, j) == IF RowsOf(view, j) # {} THEN view ELSE Append(view, j)

FirstRow(view, j) ==
  CHOOSE i \in RowsOf(view, j) : \A k \in RowsOf(view, j) : i <= k

\* the whole file is replaced, and the lock released
LedgerWrite(s) ==
  LET j == sess[s].job
      new == WithRow(sess[s].view, j)
  IN
  /\ At(s, "appending")
  /\ ledger' = new
  /\ sess' = [sess EXCEPT ![s].pc = "recorded", ![s].view = <<>>,
                          ![s].snap.row = FirstRow(new, j)]
  /\ UNCHANGED <<dbVars, staged, published, outside, faults>>

LedgerCommit(s) ==
  /\ At(s, "recorded")
  /\ CommitOperation(s, [sess[s].snap EXCEPT !.state = "ledger_appended"],
                     NextPc("ledger_appended"))
  /\ UNCHANGED <<job, rows, fileVars, outside, faults>>

-----------------------------------------------------------------------------
(* _complete_operation                                                      *)

\* _validate_published_operation
PublishedIntact(j, row) ==
  /\ published[j] = AllFiles
  /\ row \in DOMAIN ledger
  /\ ledger[row] = j

\* the last commit: rows created unless they exist, job sealing -> approved
Completable(s) ==
  LET j == sess[s].job IN
  /\ PublishedIntact(j, sess[s].snap.row)
  /\ job[j] = "sealing"

\* the commit is durable; its acknowledgement may be lost
CompleteCommit(s) ==
  LET j == sess[s].job IN
  /\ At(s, "completing")
  /\ Completable(s)
  /\ rows' = rows \cup {j}
  /\ job' = [job EXCEPT ![j] = "approved"]
  /\ oper' = [oper EXCEPT ![j].state = "completed"]
  /\ \/ /\ GoTo(s, "checking")
        /\ UNCHANGED faults
     \/ /\ faults < MaxFaults
        /\ faults' = faults + 1
        /\ GoTo(s, "failing")
  /\ UNCHANGED <<fileVars, outside>>

CompleteRefused(s) ==
  /\ At(s, "completing")
  /\ ~Completable(s)
  /\ GoTo(s, "integrity")
  /\ UNCHANGED <<dbVars, fileVars, outside, faults>>

\* _validate_published_operation and _completed_database_graph, on rows read
\* afresh
CompletedGraph(j) ==
  /\ oper[j].state = "completed" /\ ~oper[j].error
  /\ job[j] = "approved"
  /\ j \in rows
  /\ ~RecordsChanged(j)
  /\ PublishedIntact(j, oper[j].row)

\* success: staging is removed and the lock released
Finish(s) ==
  /\ sess' = [sess EXCEPT ![s] = Idle]
  /\ staged' = [staged EXCEPT ![sess[s].job] = {}]
  /\ UNCHANGED <<dbVars, published, ledger, outside, faults>>

CheckCompleted(s) ==
  /\ At(s, "checking")
  /\ CompletedGraph(sess[s].job)
  /\ Finish(s)

CheckRefused(s) ==
  /\ At(s, "checking")
  /\ oper[sess[s].job].state = "completed"
  /\ ~CompletedGraph(sess[s].job)
  /\ GoTo(s, "integrity")
  /\ UNCHANGED <<dbVars, fileVars, outside, faults>>

\* the row no longer says completed: the request ends in an error
CheckStopped(s) ==
  /\ At(s, "checking")
  /\ oper[sess[s].job].state # "completed"
  /\ sess' = [sess EXCEPT ![s] = Idle]
  /\ UNCHANGED <<dbVars, fileVars, outside, faults>>

-----------------------------------------------------------------------------
(* Failures                                                                 *)

(* Mutant: a lost acknowledgement is taken for a failed commit. *)
NeverFoundDurable(j) == FALSE

\* _load_persisted_completion: a new database session reads the state
FoundDurable(j) == oper[j].state = "completed"

FoundCompleted(s) ==
  /\ At(s, "failing")
  /\ FoundDurable(sess[s].job)
  /\ CompletedGraph(sess[s].job)
  /\ Finish(s)

FoundInconsistent(s) ==
  /\ At(s, "failing")
  /\ FoundDurable(sess[s].job)
  /\ ~CompletedGraph(sess[s].job)
  /\ GoTo(s, "integrity")
  /\ UNCHANGED <<dbVars, fileVars, outside, faults>>

\* last_error is stored, the state is what the last commit left
RecordFailure(s) ==
  /\ At(s, "failing")
  /\ ~FoundDurable(sess[s].job)
  /\ oper' = [oper EXCEPT ![sess[s].job].error = TRUE]
  /\ sess' = [sess EXCEPT ![s] = Idle]
  /\ UNCHANGED <<job, rows, fileVars, outside, faults>>

\* _persist_manual_attention, whatever state the row has by now
PersistManualAttention(s) ==
  LET j == sess[s].job IN
  /\ At(s, "integrity")
  /\ oper' = [oper EXCEPT ![j].state = "manual_attention", ![j].error = TRUE]
  /\ sess' = [sess EXCEPT ![s] = Idle]
  /\ UNCHANGED <<job, rows, fileVars, outside, faults>>

Fault ==
  /\ faults < MaxFaults
  /\ faults' = faults + 1

\* a database error, or an OSError in hashing, writing or moving a file
IoError(s) ==
  /\ Fault
  /\ sess[s].pc \in Locked \ {"failing", "integrity"}
  /\ GoTo(s, "failing")
  /\ UNCHANGED <<dbVars, fileVars, outside>>

\* where an OSError is made a SealIntegrityError: the storage directories are
\* looked at, the ledger or the archive is read
ReadsForDamage(s) ==
  \/ At(s, "staging") /\ sess[s].n = 0 /\ ~EvidenceChanged(sess[s].job)
  \/ sess[s].pc \in {"publishing", "ledger", "completing", "checking"}
  \/ At(s, "failing") /\ FoundDurable(sess[s].job)

\* such a read fails, and is taken for damage whatever its cause
ReadError(s) ==
  /\ Fault
  /\ ReadsForDamage(s)
  /\ GoTo(s, "integrity")
  /\ misread' = misread \cup {sess[s].job}
  /\ UNCHANGED <<dbVars, fileVars, changed>>

\* the process dies, or an error escapes the handler; locks are released
Crash(s) ==
  /\ Fault
  /\ sess[s].pc # "idle"
  /\ sess' = [sess EXCEPT ![s] = Idle]
  /\ UNCHANGED <<dbVars, fileVars, outside>>

\* the staging directory is scratch data and may be lost between attempts
LoseStaging(j) ==
  /\ Fault
  /\ Meddling \/ LockFree(j)
  /\ staged[j] # {}
  /\ staged' = [staged EXCEPT ![j] = {}]
  /\ UNCHANGED <<dbVars, published, ledger, outside, sess>>

ChangeSource(j) ==
  /\ Meddling
  /\ Fault
  /\ \E source \in Sources :
       /\ <<j, source>> \notin changed
       /\ changed' = changed \cup {<<j, source>>}
  /\ UNCHANGED <<dbVars, fileVars, misread, sess>>

-----------------------------------------------------------------------------
\* one step of a session that holds the lock of its operation
SagaStep(s) ==
  \/ Begin(s)
  \/ StageFile(s) \/ StageRefused(s) \/ StageMismatch(s) \/ StageCommit(s)
  \/ PublishCheck(s) \/ PublishFile(s) \/ PublishMissing(s) \/ PublishCommit(s)
  \/ LedgerRead(s) \/ LedgerWrite(s) \/ LedgerCommit(s)
  \/ CompleteCommit(s) \/ CompleteRefused(s)
  \/ CheckCompleted(s) \/ CheckRefused(s) \/ CheckStopped(s)
  \/ FoundCompleted(s) \/ FoundInconsistent(s) \/ RecordFailure(s)
  \/ PersistManualAttention(s)

Request(s) ==
  \E j \in Jobs : Approve(s, j) \/ Reject(s, j) \/ RepeatApproval(s, j)

Recovery(j) == \E s \in Sessions : StartRecovery(s, j)

Environment ==
  \/ \E s \in Sessions : IoError(s) \/ ReadError(s) \/ Crash(s)
  \/ \E j \in Jobs : LoseStaging(j) \/ ChangeSource(j)

Next ==
  \/ \E s \in Sessions : Request(s) \/ Lock(s) \/ SagaStep(s)
  \/ \E j \in Jobs : Recovery(j)
  \/ Environment

Spec == Init /\ [][Next]_vars

(* A session that runs goes on, and an unfinished operation is taken up     *)
(* again and again, by the starts of the service: a start walks through all *)
(* of them, and is not kept out by the requests that use the other session  *)
(* slots.  Reviewers owe nothing.                                           *)
Fairness ==
  /\ \A s \in Sessions : WF_vars(Lock(s)) /\ WF_vars(SagaStep(s))
  /\ \A j \in Jobs : SF_vars(Recovery(j))

FairSpec == Spec /\ Fairness

-----------------------------------------------------------------------------
(* Properties                                                               *)

\* Every variable has the type of the row, file set or local it stands for.
OperType ==
  [state : OperStates, error : BOOLEAN, digests : BOOLEAN, row : Nat]

SessType ==
  [pc : Pcs, job : Jobs \cup {NoJob}, snap : OperType, fresh : BOOLEAN,
   n : 0..Len(Files), view : Seq(Jobs)]

TypeOK ==
  /\ job \in [Jobs -> JobStates]
  /\ oper \in [Jobs -> OperType]
  /\ rows \subseteq Jobs
  /\ staged \in [Jobs -> SUBSET AllFiles]
  /\ published \in [Jobs -> SUBSET AllFiles]
  /\ ledger \in Seq(Jobs)
  /\ changed \subseteq Jobs \X Sources
  /\ misread \subseteq Jobs
  /\ sess \in [Sessions -> SessType]
  /\ faults \in 0..MaxFaults

\* An approved job has its three files published, its ledger row and its
\* database rows, however often its saga was interrupted, resumed or repeated.
ApprovedIsSealed ==
  \A j \in Jobs : job[j] = "approved" =>
    /\ published[j] = AllFiles
    /\ RowsOf(ledger, j) # {}
    /\ j \in rows

\* An archive has one row in the ledger: a saga that died between the ledger
\* and its commit, or that ran twice, finds its row and does not add another.
OneLedgerRowPerArchive ==
  \A i, k \in DOMAIN ledger : ledger[i] = ledger[k] => i = k

\* The ledger never names an archive whose files are not all published.
LedgerOnlyNamesPublished ==
  \A i \in DOMAIN ledger : published[ledger[i]] = AllFiles

\* The index an operation persisted is that of its own row.
PersistedRowIsItsOwn ==
  \A j \in Jobs : oper[j].row # 0 =>
    oper[j].row \in DOMAIN ledger /\ ledger[oper[j].row] = j

\* The ledger agrees with the files and with the database while two sessions
\* seal two archives into it: one row for each archive, written only once its
\* files are in place, and the index an operation keeps is that of its row.
LedgerIsSound ==
  OneLedgerRowPerArchive /\ LedgerOnlyNamesPublished /\ PersistedRowIsItsOwn

\* A row once in the ledger keeps its index and its predecessors, so the hash
\* chain of the rows before it stays valid while other archives are sealed.
LedgerOnlyGrows ==
  [][/\ Len(ledger) <= Len(ledger')
     /\ \A i \in DOMAIN ledger : ledger'[i] = ledger[i]]_vars

\* Jobs whose operation may be set aside for a reason that is not the saga's:
\* a file it could not read was taken for a damaged one, or a row it was frozen
\* from was rewritten.
Suspect(j) == j \in misread \/ RecordsChanged(j)

\* A seal operation that reached completed stays completed, unless a later
\* look at its files meets a read error (or its rows were rewritten): that the
\* code takes for damage.
CompletedIsFinal ==
  [][\A j \in Jobs : oper[j].state = "completed" =>
       oper'[j].state = "completed" \/ Suspect(j)]_vars

\* The job and its seal operation agree: sealing while the operation is open
\* or set aside, approved exactly when it is completed; only a suspect job can
\* be approved with an operation that was set aside afterwards.
JobAgrees(j) ==
  /\ oper[j].state = "completed" => job[j] = "approved"
  /\ oper[j].state \in Resumable => job[j] = "sealing"
  /\ job[j] = "sealing" => oper[j].state \in Resumable \cup {"manual_attention"}
  /\ job[j] = "approved" =>
       \/ oper[j].state = "completed"
       \/ oper[j].state = "manual_attention" /\ Suspect(j)

\* A completed operation carries no failure.
CompletedHasNoError ==
  \A j \in Jobs : oper[j].state = "completed" => ~oper[j].error

\* No operation is set aside for manual attention, but those of suspect jobs.
NothingNeedsAttention ==
  \A j \in Jobs : oper[j].state = "manual_attention" => Suspect(j)

\* Interrupted attempts, failed writes, lost scratch files and a lost answer to
\* the last commit leave no mark: job and operation agree at every moment, a
\* completed operation keeps no error of an earlier attempt, and the next
\* attempt repairs what the last one left instead of asking for manual
\* attention.  Only a read error the code takes for damage is a mark.
InterruptionLeavesNoMark ==
  /\ TypeOK
  /\ \A j \in Jobs : JobAgrees(j)
  /\ CompletedHasNoError
  /\ NothingNeedsAttention

\* A job that entered sealing is approved or set aside for manual attention.
SealSettles ==
  \A j \in Jobs :
    job[j] = "sealing" ~>
      (job[j] = "approved" \/ oper[j].state = "manual_attention")
=============================================================================
