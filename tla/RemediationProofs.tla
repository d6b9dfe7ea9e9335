------------------------- MODULE RemediationProofs --------------------------
(***************************************************************************)
(* Theorems about Remediation, for any jobs, cases, requests, keys and     *)
(* numbers of analyses and attempts, on row locks and on a single writer.  *)
(*                                                                         *)
(* What a request read may be stale when it writes.  RemediationInv says   *)
(* what is still true of it: a case a command may overwrite is the one it  *)
(* read, and a review that holds its job is the only one to write the case *)
(* that waits for the job.                                                 *)
(***************************************************************************)
EXTENDS Remediation, TLAPS

FindingCase == [status : CASE_STATUSES \cup {"absent"}, version : Nat,
                active : 0..MaxAttempts, result : 0..MaxRuns,
                proof : Jobs \cup {NoJob}]
Attempt == [job : Jobs \cup {NoJob}, resolution : Resolutions,
            proof : Jobs \cup {NoJob}]
Snapshot == [case : Cases \cup {NoCase}, no : 0..MaxAttempts,
             status : CASE_STATUSES \cup {"absent", "none"}, version : Nat,
             resolution : Resolutions]
Seen == UNION {[S -> FindingCase] : S \in SUBSET Cases}
Request == [pc : {"idle", "checked", "reviewing", "holding"},
            command : Commands \cup {"none"}, case : Cases \cup {NoCase},
            job : Jobs \cup {NoJob}, key : Keys \cup {NoKey}, seen : Seen,
            resolution : Resolutions]

Typed ==
  /\ status \in [Jobs -> JobStates]
  /\ runs \in [Jobs -> 0..MaxRuns] /\ result \in [Jobs -> 0..MaxRuns]
  /\ case \in [Cases -> FindingCase]
  /\ attempts \in [Cases -> Seq(Attempt)]
  /\ \A c \in Cases : Len(attempts[c]) <= MaxAttempts
  /\ seal \in [Jobs -> [state : SealStates, frozen : Snapshot]]
  /\ req \in [Requests -> Request]
  /\ changes \in [Cases -> Nat]
  /\ commands \subseteq [key : Keys, case : Cases, command : Commands, version : Nat]

Reviewed == {"needs_review", "sealing", "approved", "rejected"}
Waiting == {"queued", "failed", "dead", "needs_review", "sealing"}
Remediated == {"remediation_in_progress", "verification_pending", "closed"}

\* attempt n of case c is the one verified by job j
Bound(c, n, j) == n \in DOMAIN attempts[c] /\ attempts[c][n].job = j

\* The row of a case: its source is decided, its status bounds its version
\* and says which attempts it has.
CaseFits(c) ==
  /\ ~Exists(c) => case[c] = NoFindingCase /\ changes[c] = 0
  /\ Exists(c) => status[Source[c]] \in Reviewed /\ IsFaithful(c)
  /\ case[c].status \in {"absent", "pending_triage", "open", "dismissed"} =>
       case[c].active = 0 /\ attempts[c] = <<>> /\ case[c].proof = NoJob
  /\ case[c].status = "pending_triage" => case[c].version = 0
  /\ case[c].status = "open" => case[c].version = 1
  /\ case[c].status = "dismissed" => case[c].version >= 1
  /\ case[c].status \in Remediated =>
       case[c].version >= 2 /\ status[Source[c]] = "approved"
  /\ case[c].active # 0 => case[c].active \in DOMAIN attempts[c]
  /\ case[c].status = "remediation_in_progress" /\ case[c].active # 0 =>
       attempts[c][case[c].active].job = NoJob
  /\ case[c].status = "verification_pending" =>
       case[c].active # 0 /\ attempts[c][case[c].active].job # NoJob
  /\ case[c].status # "closed" => case[c].proof = NoJob
  /\ case[c].status = "closed" => IsClosedProperly(c)

\* The row of an attempt: its resolution and proof follow its verification.
AttemptFits(c, n) ==
  LET try == attempts[c][n] IN
  /\ try.resolution = "pending" => case[c].active = n
  /\ try.job = NoJob => try.resolution = "pending" /\ try.proof = NoJob
  /\ try.proof \in {NoJob, try.job}
  /\ try.job # NoJob =>
       /\ status[try.job] # "absent"
       /\ status[try.job] \in Waiting =>
            /\ case[c].status = "verification_pending" /\ case[c].active = n
            /\ try.proof = NoJob
            /\ try.resolution = "pending" <=> status[try.job] # "sealing"
       /\ status[try.job] \notin Waiting =>
            /\ try.resolution # "pending"
            /\ case[c].active # n
            /\ try.proof = IF status[try.job] = "approved" THEN try.job ELSE NoJob

AttemptsFit == \A c \in Cases : \A n \in DOMAIN attempts[c] : AttemptFits(c, n)

OneAttemptPerJob ==
  \A c, d \in Cases : \A n, m \in Nat, j \in Jobs :
    Bound(c, n, j) /\ Bound(d, m, j) => c = d /\ n = m

SealFits(j) ==
  /\ status[j] = "sealing" <=> seal[j].state \in {"requested", "staged"}
  /\ status[j] = "approved" <=> seal[j].state = "completed"
  /\ seal[j].state # "manual_attention"
  /\ status[j] = "sealing" => seal[j].frozen = Context(j)

\* What is still true of what a command read.
CommandFits(r) ==
  LET c == req[r].case
      read == req[r].seen[c] IN
  /\ c \in Cases /\ c \in DOMAIN req[r].seen
  /\ Exists(c)
  /\ req[r].command \in CaseCommands \cup {"remediation_attempt_created", "bind"}
  /\ req[r].command \in {"finding_confirmed", "finding_dismissed"} =>
       read.version = 0
  /\ req[r].command \notin {"finding_confirmed", "finding_dismissed"} =>
       /\ status[Source[c]] = "approved"
       /\ case[c].version >= read.version
       /\ case[c].version = read.version => case[c] = read
  /\ req[r].command = "remediation_started" => read.status = "open"
  /\ req[r].command = "remediation_attempt_created" =>
       /\ read.status = "remediation_in_progress" /\ read.active = 0
       /\ case[c].version = read.version => Len(attempts[c]) < MaxAttempts
  /\ req[r].command = "bind" =>
       read.status = "remediation_in_progress" /\ read.active # 0
  /\ req[r].key \in Keys \/ req[r].command = "bind"

\* What is still true of what a review read before it took its job.
ReviewFits(r) ==
  /\ req[r].job \in Jobs
  /\ req[r].command \in {"approve", "reject"}
  /\ status[req[r].job] \in Reviewed
  /\ req[r].command = "approve" => Untriaged(req[r].job) = {}
  /\ AttemptsOf(req[r].job) = {} => req[r].resolution = "pending"
  /\ AttemptsOf(req[r].job) # {} => req[r].resolution # "pending"

\* What a review that holds its job has loaded.
HoldingFits(r) ==
  LET j == req[r].job
      read == req[r].seen IN
  /\ status[j] = "needs_review"
  /\ \A c \in DOMAIN read : Exists(c)
  /\ \A c \in Cases : \A n \in DOMAIN attempts[c] :
       Bound(c, n, j) => c \in DOMAIN read /\ read[c] = case[c]
  /\ req[r].command = "reject" =>
       \A c \in Cases : Source[c] = j /\ Exists(c) =>
         /\ c \in DOMAIN read
         /\ read[c].status = "dismissed" => case[c].status = "dismissed"

RequestFits(r) ==
  /\ At(r, "checked") => CommandFits(r)
  /\ At(r, "reviewing") => ReviewFits(r)
  /\ At(r, "holding") => ReviewFits(r) /\ HoldingFits(r)

OneHolder ==
  \A q, r \in Requests : Holds(q) /\ Holds(r) /\ req[q].job = req[r].job => q = r

RemediationInv ==
  /\ Typed
  /\ \A c \in Cases : CaseFits(c)
  /\ ReviewedSourceIsDecided
  /\ LiveVersionNamesOneChange
  /\ AttemptsFit
  /\ OneAttemptPerJob
  /\ \A j \in Jobs : SealFits(j)
  /\ \A r \in Requests : RequestFits(r)
  /\ OneHolder

-----------------------------------------------------------------------------
(* The rows read through AttemptsOf and Context.                           *)

LEMMA SeenMade ==
  ASSUME Typed, NEW S \in SUBSET Cases
  PROVE  [c \in S |-> case[c]] \in Seen
  BY DEF Typed, Seen

LEMMA NothingSeen == [c \in {} |-> NoFindingCase] \in Seen
  <1>1. [c \in {} |-> NoFindingCase] \in [{} -> FindingCase]
    OBVIOUS
  <1> QED BY <1>1 DEF Seen

LEMMA AttemptTyped ==
  ASSUME Typed, NEW c \in Cases
  PROVE  /\ attempts[c] \in Seq(Attempt)
         /\ DOMAIN attempts[c] = 1..Len(attempts[c])
         /\ Len(attempts[c]) \in 0..MaxAttempts
         /\ \A n \in DOMAIN attempts[c] : attempts[c][n] \in Attempt
  BY RemediationAssumption DEF Typed

LEMMA AttemptRows ==
  ASSUME Typed, NEW j
  PROVE  /\ \A c \in Cases : \A n : <<c, n>> \in AttemptsOf(j) <=> Bound(c, n, j)
         /\ \A a \in AttemptsOf(j) :
              /\ a = <<a[1], a[2]>> /\ a[1] \in Cases /\ a[2] \in 1..MaxAttempts
              /\ Bound(a[1], a[2], j)
  <1>1. \A c \in Cases : DOMAIN attempts[c] = 1..Len(attempts[c])
                         /\ Len(attempts[c]) \in 0..MaxAttempts
    BY AttemptTyped
  <1>2. MaxAttempts \in Nat
    BY RemediationAssumption
  <1> QED BY <1>1, <1>2 DEF AttemptsOf, Bound

\* An attempt is bound once, to a job that is new, and a case that waits for
\* a job changes only with the job.
BindingsStay ==
  \A j \in Jobs : status[j] # "absent" =>
    \A c \in Cases : \A n :
      /\ n \in DOMAIN attempts'[c] /\ attempts'[c][n].job = j <=> Bound(c, n, j)
      /\ status'[j] = status[j] /\ Bound(c, n, j) /\ status[j] \in {"needs_review", "sealing"} =>
           case'[c] = case[c] /\ attempts'[c][n] = attempts[c][n]

LEMMA AttemptRowsNext ==
  ASSUME Typed', NEW j
  PROVE  \A c \in Cases : \A n :
           <<c, n>> \in AttemptsOf(j)' <=> n \in DOMAIN attempts'[c] /\ attempts'[c][n].job = j
  <1>1. \A c \in Cases : DOMAIN attempts'[c] = 1..Len(attempts'[c])
                         /\ Len(attempts'[c]) \in 0..MaxAttempts
    BY RemediationAssumption DEF Typed
  <1>2. MaxAttempts \in Nat
    BY RemediationAssumption
  <1> QED BY <1>1, <1>2 DEF AttemptsOf

LEMMA AttemptsStay ==
  ASSUME Typed, Typed', NEW j, BindingsStay, j \in Jobs, status[j] # "absent"
  PROVE  AttemptsOf(j)' = AttemptsOf(j)
  <1>1. \A c \in Cases : \A n : <<c, n>> \in AttemptsOf(j)' <=> <<c, n>> \in AttemptsOf(j)
    <2> SUFFICES ASSUME NEW c \in Cases, NEW n
                 PROVE  <<c, n>> \in AttemptsOf(j)' <=> <<c, n>> \in AttemptsOf(j)
      OBVIOUS
    <2>1. <<c, n>> \in AttemptsOf(j) <=> Bound(c, n, j)
      BY AttemptRows
    <2>2. <<c, n>> \in AttemptsOf(j)' <=> n \in DOMAIN attempts'[c] /\ attempts'[c][n].job = j
      BY AttemptRowsNext
    <2> QED BY <2>1, <2>2 DEF BindingsStay
  <1>2. /\ AttemptsOf(j) \subseteq Cases \X (1..MaxAttempts)
        /\ AttemptsOf(j)' \subseteq Cases \X (1..MaxAttempts)
    BY DEF AttemptsOf
  <1> QED BY <1>1, <1>2

\* At most one attempt is verified by a job, and the context is its row.
LEMMA ContextIsTheRow ==
  ASSUME Typed, OneAttemptPerJob, NEW j \in Jobs
  PROVE  /\ AttemptsOf(j) = {} => Context(j) = NoContext
         /\ \A c \in Cases : \A n : Bound(c, n, j) =>
              /\ AttemptsOf(j) = {<<c, n>>}
              /\ Context(j) = [case |-> c, no |-> n, status |-> case[c].status,
                               version |-> case[c].version,
                               resolution |-> attempts[c][n].resolution]
  <1>1. AttemptsOf(j) = {} => Context(j) = NoContext
    BY DEF Context
  <1>2. ASSUME NEW c \in Cases, NEW n, Bound(c, n, j)
        PROVE  /\ AttemptsOf(j) = {<<c, n>>}
               /\ Context(j) = [case |-> c, no |-> n, status |-> case[c].status,
                                version |-> case[c].version,
                                resolution |-> attempts[c][n].resolution]
    <2>1. \A d \in Cases : DOMAIN attempts[d] \subseteq Nat
      BY AttemptTyped
    <2>2. ASSUME NEW a \in AttemptsOf(j) PROVE a = <<c, n>>
      BY <1>2, <2>1, <2>2, AttemptRows DEF OneAttemptPerJob, Bound
    <2>3. AttemptsOf(j) = {<<c, n>>}
      BY <1>2, <2>2, AttemptRows
    <2>4. (CHOOSE a \in AttemptsOf(j) : TRUE) = <<c, n>>
      BY <2>3
    <2> QED BY <2>3, <2>4 DEF Context
  <1> QED BY <1>1, <1>2

-----------------------------------------------------------------------------
(* What the inductive invariant says of readiness and of frozen contexts.  *)

LEMMA CasesAreIntact ==
  ASSUME RemediationInv, NEW c \in Cases, Exists(c)
  PROVE  IsIntact(c)
  <1> DEFINE tries == attempts[c]
             active == case[c].active
             pending == {n \in DOMAIN tries : tries[n].resolution = "pending"}
  <1>1. CaseFits(c) /\ case[c] \in FindingCase
    BY DEF RemediationInv, Typed
  <1>2. \A n \in DOMAIN tries : AttemptFits(c, n) /\ tries[n] \in Attempt
    BY AttemptTyped DEF RemediationInv, AttemptsFit
  <1>3. IsFaithful(c) /\ (active = 0 \/ active \in DOMAIN tries)
    BY <1>1 DEF CaseFits
  <1>4. \A n \in DOMAIN tries : tries[n].proof # NoJob => tries[n].proof = tries[n].job
    BY <1>2 DEF AttemptFits
  <1>5. \A n \in pending : active = n
    BY <1>2 DEF AttemptFits
  <1>6. CASE case[c].status = "verification_pending"
    <2>1. active # 0 /\ tries[active].job # NoJob
      BY <1>1, <1>6 DEF CaseFits
    <2> QED BY <1>3, <1>4, <1>6, <2>1 DEF IsIntact
  <1>7. CASE case[c].status \in {"pending_triage", "open", "dismissed"}
    <2>1. active = 0 /\ tries = <<>>
      BY <1>1, <1>7 DEF CaseFits
    <2> QED BY <1>3, <1>4, <1>7, <2>1 DEF IsIntact
  <1>8. CASE case[c].status = "remediation_in_progress"
    <2>1. active = 0 => pending = {}
      BY <1>5, AttemptTyped DEF RemediationInv
    <2>2. active # 0 => active \in pending /\ tries[active].job = NoJob
      BY <1>1, <1>2, <1>8 DEF CaseFits, AttemptFits
    <2>3. IF active = 0 THEN pending = {}
          ELSE active \in pending /\ tries[active].job = NoJob
      BY <2>1, <2>2
    <2> QED BY <1>3, <1>4, <1>8, <2>3 DEF IsIntact
  <1>9. CASE case[c].status = "closed"
    <2>1. IsClosedProperly(c)
      BY <1>1, <1>9 DEF CaseFits
    <2> QED BY <1>3, <1>4, <1>9, <2>1 DEF IsIntact
  <1> QED BY <1>1, <1>6, <1>7, <1>8, <1>9 DEF FindingCase, CASE_STATUSES, Exists

LEMMA InvariantIsSound == RemediationInv => CasesAreSound
  <1> SUFFICES ASSUME RemediationInv PROVE CasesAreSound
    OBVIOUS
  <1>1. TypeOK
    <2>1. \A r \in Requests : /\ req[r].pc \in {"idle", "checked", "reviewing", "holding"}
                             /\ DOMAIN req[r].seen \subseteq Cases
      BY DEF RemediationInv, Typed, Request, Seen
    <2> QED BY <2>1 DEF RemediationInv, Typed, TypeOK, FindingCase, Attempt
  <1>2. EveryCaseIsIntact
    BY CasesAreIntact DEF EveryCaseIsIntact
  <1>3. FrozenContextHolds
    BY DEF RemediationInv, SealFits, FrozenContextHolds
  <1> QED BY <1>1, <1>2, <1>3 DEF CasesAreSound

-----------------------------------------------------------------------------
(* The initial states, and the types.                                      *)

LEMMA InitiallySound == Init => RemediationInv
  <1> SUFFICES ASSUME Init PROVE RemediationInv
    OBVIOUS
  <1>1. Idle \in Request /\ NoFindingCase \in FindingCase /\ NoContext \in Snapshot
    <2> QED BY NothingSeen, RemediationAssumption
          DEF Idle, Request, NoFindingCase, FindingCase, NoContext, Snapshot,
              Resolutions, CASE_STATUSES, Commands
  <1>2. Typed
    BY <1>1, RemediationAssumption DEF Init, Typed, JobStates, SealStates
  <1>3. \A c \in Cases : CaseFits(c)
    BY DEF Init, CaseFits, Exists, NoFindingCase, Remediated
  <1>4. ReviewedSourceIsDecided /\ LiveVersionNamesOneChange
    BY DEF Init, ReviewedSourceIsDecided, LiveVersionNamesOneChange, Exists,
           NoFindingCase
  <1>5. AttemptsFit /\ OneAttemptPerJob
    BY DEF Init, AttemptsFit, OneAttemptPerJob, Bound
  <1>6. \A j \in Jobs : SealFits(j)
    BY DEF Init, SealFits
  <1>7. (\A r \in Requests : RequestFits(r)) /\ OneHolder
    BY DEF Init, RequestFits, OneHolder, Holds, At, Idle
  <1> QED BY <1>2, <1>3, <1>4, <1>5, <1>6, <1>7 DEF RemediationInv

\* The case a command may overwrite is the one it read.
LEMMA Winner ==
  ASSUME RemediationInv, NEW r \in Requests, At(r, "checked"), Wins(r)
  PROVE  LET c == req[r].case IN
         /\ c \in Cases /\ Exists(c)
         /\ Loaded(r).version = case[c].version
         /\ req[r].command \in {"finding_confirmed", "finding_dismissed"} =>
              case[c].status = "pending_triage"
         /\ req[r].command \in {"remediation_started", "remediation_attempt_created",
                               "bind"} =>
              case[c] = Loaded(r) /\ status[Source[c]] = "approved"
         /\ req[r].command = "remediation_started" => case[c].status = "open"
         /\ req[r].command = "remediation_attempt_created" =>
              /\ case[c].status = "remediation_in_progress"
              /\ case[c].active = 0 /\ Len(attempts[c]) < MaxAttempts
         /\ req[r].command = "bind" =>
              /\ case[c].status = "remediation_in_progress"
              /\ case[c].active \in DOMAIN attempts[c]
  <1> DEFINE c == req[r].case
  <1>1. CommandFits(r)
    BY DEF RemediationInv, RequestFits
  <1>2. c \in Cases /\ Exists(c) /\ Loaded(r).version = case[c].version
    BY <1>1 DEF CommandFits, Wins, Loaded
  <1>3. CaseFits(c) /\ case[c] \in FindingCase
    BY <1>2 DEF RemediationInv, Typed
  <1>4. req[r].command \in {"finding_confirmed", "finding_dismissed"} =>
          case[c].status = "pending_triage"
    BY <1>1, <1>2, <1>3
    DEF CommandFits, CaseFits, Loaded, FindingCase, CASE_STATUSES, Exists, Remediated
  <1>5. req[r].command \in {"remediation_started", "remediation_attempt_created", "bind"}
          => case[c] = Loaded(r) /\ status[Source[c]] = "approved"
    BY <1>1, <1>2 DEF CommandFits, Loaded
  <1>6. /\ req[r].command = "remediation_started" => case[c].status = "open"
        /\ req[r].command = "remediation_attempt_created" =>
             /\ case[c].status = "remediation_in_progress"
             /\ case[c].active = 0 /\ Len(attempts[c]) < MaxAttempts
        /\ req[r].command = "bind" =>
             case[c].status = "remediation_in_progress" /\ case[c].active # 0
    BY <1>1, <1>2, <1>5 DEF CommandFits, Loaded
  <1> QED BY <1>2, <1>3, <1>4, <1>5, <1>6 DEF CaseFits

-----------------------------------------------------------------------------
(* Steps that only read.                                                   *)

rowVars == <<status, runs, result, case, attempts, commands, seal, changes>>

LEMMA ReadingStep ==
  ASSUME RemediationInv, UNCHANGED rowVars, NEW r \in Requests, NEW new \in Request,
         req' = [req EXCEPT ![r] = new],
         RequestFits(r)',
         new.pc = "holding" => \A q \in Requests : ~(Holds(q) /\ req[q].job = new.job)
  PROVE  RemediationInv'
  <1>1. req'[r] = new /\ \A q \in Requests \ {r} : req'[q] = req[q]
    BY DEF RemediationInv, Typed
  <1>2. Typed'
    BY DEF RemediationInv, Typed, rowVars
  <1>3. (\A c \in Cases : CaseFits(c))'
    BY DEF RemediationInv, CaseFits, Exists, IsFaithful, IsClosedProperly, rowVars
  <1>4. (ReviewedSourceIsDecided /\ LiveVersionNamesOneChange /\ AttemptsFit
          /\ OneAttemptPerJob)'
    BY DEF RemediationInv, ReviewedSourceIsDecided, LiveVersionNamesOneChange,
           AttemptsFit, AttemptFits, OneAttemptPerJob, Bound, Exists, rowVars
  <1>5. (\A j \in Jobs : SealFits(j))'
    <2>1. ASSUME NEW j \in Jobs PROVE Context(j)' = Context(j)
      <3>1. AttemptsOf(j)' = AttemptsOf(j)
        BY DEF AttemptsOf, rowVars
      <3> QED BY <3>1 DEF Context, rowVars
    <2> QED BY <2>1 DEF RemediationInv, SealFits, rowVars
  <1>6. ASSUME NEW q \in Requests, q # r PROVE RequestFits(q)'
    BY <1>1, <1>6
    DEF RemediationInv, RequestFits, CommandFits, ReviewFits, HoldingFits, At, Exists,
        Untriaged, AttemptsOf, Bound, rowVars
  <1>7. OneHolder'
    BY <1>1 DEF RemediationInv, OneHolder, Holds, At
  <1> QED BY <1>2, <1>3, <1>4, <1>5, <1>6, <1>7 DEF RemediationInv

\* A command remembers the case it passed its checks with.
Remembers(new, command, c) ==
  /\ new.pc = "checked" /\ new.command = command /\ new.case = c
  /\ new.seen = [d \in {c} |-> case[d]]

LEMMA ReceivingStep ==
  ASSUME RemediationInv, NEW r \in Requests, NEW c \in Cases, NEW command, Exists(c),
         NEW new \in Request, Remembers(new, command, c), UNCHANGED rowVars,
         req' = [req EXCEPT ![r] = new]
  PROVE  /\ req'[r] = new
         /\ CommandFits(r)' => RemediationInv'
  <1>1. req'[r] = new
    BY DEF RemediationInv, Typed
  <1>2. ASSUME CommandFits(r)' PROVE RemediationInv'
    <2>1. RequestFits(r)'
      BY <1>1, <1>2 DEF RequestFits, At, Remembers
    <2> QED BY <2>1, ReadingStep DEF Remembers
  <1> QED BY <1>1, <1>2

LEMMA NewCommand ==
  ASSUME RemediationInv, NEW c \in Cases, NEW k \in Keys, NEW command \in Commands
  PROVE  LET new == [Idle EXCEPT !.pc = "checked", !.command = command, !.case = c,
                                 !.key = k, !.seen = [d \in {c} |-> case[d]]]
         IN  new \in Request /\ Remembers(new, command, c) /\ new.key = k
  <1>1. [d \in {c} |-> case[d]] \in Seen
    BY SeenMade DEF RemediationInv
  <1> QED BY <1>1 DEF Idle, Request, Resolutions, Remembers

LEMMA TriageReceived ==
  ASSUME RemediationInv, NEW r \in Requests, NEW c \in Cases, NEW k \in Keys,
         NEW command \in CaseCommands, ReceiveTriage(r, c, k, command)
  PROVE  RemediationInv'
  <1>1. Exists(c) /\ UNCHANGED rowVars /\ command \in Commands
    BY DEF ReceiveTriage, Receive, rowVars, Commands
  <1> DEFINE new == [Idle EXCEPT !.pc = "checked", !.command = command, !.case = c,
                                 !.key = k, !.seen = [d \in {c} |-> case[d]]]
  <1>2. new \in Request /\ Remembers(new, command, c) /\ new.key = k
    BY <1>1, NewCommand
  <1>3. req' = [req EXCEPT ![r] = new]
    BY DEF ReceiveTriage, Receive
  <1> HIDE DEF new
  <1>4. req'[r] = new /\ (CommandFits(r)' => RemediationInv')
    BY <1>1, <1>2, <1>3, ReceivingStep
  <1>5. case[c].version = 0 /\ command \in {"finding_confirmed", "finding_dismissed"}
    BY DEF RemediationInv, CaseFits, ReceiveTriage
  <1>6. CommandFits(r)'
    BY <1>2, <1>1, <1>4, <1>5 DEF CommandFits, Remembers, Exists, rowVars
  <1> QED BY <1>4, <1>6

LEMMA StartReceived ==
  ASSUME RemediationInv, NEW r \in Requests, NEW c \in Cases, NEW k \in Keys,
         ReceiveStart(r, c, k)
  PROVE  RemediationInv'
  <1>1. /\ Exists(c) /\ UNCHANGED rowVars
        /\ "remediation_started" \in CaseCommands /\ "remediation_started" \in Commands
    BY DEF ReceiveStart, Receive, rowVars, Commands, CaseCommands, TargetStatus
  <1> DEFINE new == [Idle EXCEPT !.pc = "checked", !.command = "remediation_started",
                                 !.case = c,
                                 !.key = k, !.seen = [d \in {c} |-> case[d]]]
  <1>2. new \in Request /\ Remembers(new, "remediation_started", c) /\ new.key = k
    BY <1>1, NewCommand
  <1>3. req' = [req EXCEPT ![r] = new]
    BY DEF ReceiveStart, Receive
  <1> HIDE DEF new
  <1>4. req'[r] = new /\ (CommandFits(r)' => RemediationInv')
    BY <1>1, <1>2, <1>3, ReceivingStep
  <1>5. status[Source[c]] = "approved" /\ case[c].status = "open" /\ case[c].version \in Nat
    BY DEF RemediationInv, Typed, FindingCase, ReceiveStart
  <1>6. CommandFits(r)'
    BY <1>2, <1>1, <1>4, <1>5 DEF CommandFits, Remembers, Exists, rowVars
  <1> QED BY <1>4, <1>6

LEMMA AttemptReceived ==
  ASSUME RemediationInv, NEW r \in Requests, NEW c \in Cases, NEW k \in Keys,
         ReceiveAttempt(r, c, k)
  PROVE  RemediationInv'
  <1>1. /\ Exists(c) /\ UNCHANGED rowVars /\ "remediation_attempt_created" \in Commands
    BY DEF ReceiveAttempt, Receive, rowVars, Commands
  <1> DEFINE new == [Idle EXCEPT !.pc = "checked", !.command = "remediation_attempt_created",
                                 !.case = c,
                                 !.key = k, !.seen = [d \in {c} |-> case[d]]]
  <1>2. new \in Request /\ Remembers(new, "remediation_attempt_created", c) /\ new.key = k
    BY <1>1, NewCommand
  <1>3. req' = [req EXCEPT ![r] = new]
    BY DEF ReceiveAttempt, Receive
  <1> HIDE DEF new
  <1>4. req'[r] = new /\ (CommandFits(r)' => RemediationInv')
    BY <1>1, <1>2, <1>3, ReceivingStep
  <1>5. /\ status[Source[c]] = "approved" /\ case[c].version \in Nat
        /\ case[c].status = "remediation_in_progress" /\ Len(attempts[c]) < MaxAttempts
    BY DEF RemediationInv, Typed, FindingCase, CaseFits, Remediated, ReceiveAttempt
  <1>6. case[c].active = 0
    <2> SUFFICES ASSUME case[c].active # 0 PROVE FALSE
      OBVIOUS
    <2>1. CaseFits(c) /\ AttemptsFit
      BY DEF RemediationInv
    <2>2. case[c].active \in DOMAIN attempts[c] /\ attempts[c][case[c].active].job = NoJob
      BY <1>5, <2>1 DEF CaseFits
    <2>3. attempts[c][case[c].active].resolution = "pending"
      BY <2>1, <2>2 DEF AttemptsFit, AttemptFits
    <2> QED BY <2>2, <2>3 DEF ReceiveAttempt
  <1>7. CommandFits(r)'
    BY <1>2, <1>1, <1>4, <1>5, <1>6 DEF CommandFits, Remembers, Exists, rowVars
  <1> QED BY <1>4, <1>7

LEMMA UploadReceived ==
  ASSUME RemediationInv, NEW r \in Requests, NEW c \in Cases, ReceiveUpload(r, c)
  PROVE  RemediationInv'
  <1> DEFINE new == [Idle EXCEPT !.pc = "checked", !.command = "bind", !.case = c,
                                 !.seen = [d \in {c} |-> case[d]]]
  <1>1. Exists(c) /\ UNCHANGED rowVars /\ req' = [req EXCEPT ![r] = new]
    BY DEF ReceiveUpload, rowVars, Exists
  <1>2. [d \in {c} |-> case[d]] \in Seen
    BY SeenMade DEF RemediationInv
  <1>3. new \in Request /\ Remembers(new, "bind", c)
    BY <1>2 DEF Idle, Request, Resolutions, Remembers, Commands
  <1> HIDE DEF new
  <1>4. req'[r] = new /\ (CommandFits(r)' => RemediationInv')
    BY <1>1, <1>3, ReceivingStep
  <1>5. /\ status[Source[c]] = "approved" /\ case[c].version \in Nat
        /\ case[c].status = "remediation_in_progress" /\ case[c].active # 0
    BY DEF RemediationInv, Typed, FindingCase, CaseFits, Remediated, ReceiveUpload
  <1>6. CommandFits(r)'
    BY <1>1, <1>3, <1>4, <1>5 DEF CommandFits, Remembers, Exists, rowVars
  <1> QED BY <1>4, <1>6

LEMMA ReviewReceived ==
  ASSUME RemediationInv, NEW r \in Requests, NEW j \in Jobs,
         NEW decision \in {"approve", "reject"}, NEW resolution \in Resolutions,
         ReceiveReview(r, j, decision, resolution)
  PROVE  RemediationInv'
  <1> DEFINE new == [Idle EXCEPT !.pc = "reviewing", !.command = decision, !.job = j,
                                 !.resolution = resolution]
  <1>1. UNCHANGED rowVars
    BY DEF ReceiveReview, rowVars
  <1>3. /\ new \in Request /\ new.pc = "reviewing" /\ new.command = decision
        /\ new.job = j /\ new.resolution = resolution
    BY NothingSeen DEF Idle, Request, Commands
  <1>4. req' = [req EXCEPT ![r] = new]
    BY DEF ReceiveReview
  <1> HIDE DEF new
  <1>5. req'[r] = new
    BY <1>4 DEF RemediationInv, Typed
  <1>6. /\ status[j] = "needs_review"
        /\ decision = "approve" => Untriaged(j) = {}
        /\ AttemptsOf(j) = {} <=> resolution = "pending"
    BY DEF ReceiveReview
  <1>7. (Untriaged(j) = {} => Untriaged(j)' = {}) /\ AttemptsOf(j)' = AttemptsOf(j)
    BY <1>1 DEF Untriaged, AttemptsOf, rowVars
  <1>8. ReviewFits(r)'
    <2>1. req'[r].job = j /\ req'[r].command = decision /\ req'[r].resolution = resolution
      BY <1>3, <1>5
    <2>2. status'[j] \in Reviewed
      BY <1>1, <1>6 DEF Reviewed, rowVars
    <2>3. decision = "approve" => Untriaged(req[r].job)' = {}
      BY <1>6, <1>7, <2>1 DEF Untriaged
    <2>4. AttemptsOf(req[r].job)' = AttemptsOf(j)
      BY <1>7, <2>1 DEF AttemptsOf
    <2> QED BY <1>6, <2>1, <2>2, <2>3, <2>4 DEF ReviewFits
  <1>9. RequestFits(r)'
    BY <1>3, <1>5, <1>8 DEF RequestFits, At
  <1> QED BY <1>1, <1>3, <1>4, <1>9, ReadingStep

LEMMA IdleIsTyped ==
  /\ Idle \in Request /\ Idle.pc = "idle"
  BY NothingSeen DEF Idle, Request, Resolutions

LEMMA JobTaken ==
  ASSUME RemediationInv, NEW r \in Requests, TakeJob(r)
  PROVE  RemediationInv'
  <1> DEFINE j == req[r].job
             mine == {a[1] : a \in AttemptsOf(j)} \cup
                     {c \in Cases : Source[c] = j /\ Exists(c) /\ req[r].command = "reject"}
             new == [req[r] EXCEPT !.pc = "holding", !.seen = [c \in mine |-> case[c]]]
  <1>1. UNCHANGED rowVars /\ At(r, "reviewing")
    BY DEF TakeJob, rowVars
  <1>2. ReviewFits(r) /\ req[r] \in Request
    BY <1>1 DEF RemediationInv, RequestFits, Typed
  <1>3. CASE Finish(r)
    <2>1. req' = [req EXCEPT ![r] = Idle] /\ req'[r] = Idle
      BY <1>3 DEF Finish, RemediationInv, Typed
    <2>2. RequestFits(r)'
      BY <2>1, IdleIsTyped DEF RequestFits, At
    <2> QED BY <1>1, <2>1, <2>2, IdleIsTyped, ReadingStep
  <1>4. CASE /\ status[j] = "needs_review"
             /\ req' = [req EXCEPT ![r].pc = "holding",
                                   ![r].seen = [c \in mine |-> case[c]]]
    <2>1. mine \in SUBSET Cases
      BY AttemptRows DEF RemediationInv
    <2>2. [c \in mine |-> case[c]] \in Seen
      BY <2>1, SeenMade DEF RemediationInv
    <2>3. \A c \in Cases : \A n : Bound(c, n, j) => c \in mine
      <3>1. ASSUME NEW c \in Cases, NEW n, Bound(c, n, j) PROVE c \in mine
        <4>1. <<c, n>> \in AttemptsOf(j)
          BY <3>1, AttemptRows DEF RemediationInv
        <4> QED BY <4>1
      <3> QED BY <3>1
    <2>4. req[r].command = "reject" =>
            \A c \in Cases : Source[c] = j /\ Exists(c) => c \in mine
      OBVIOUS
    <2>5. req' = [req EXCEPT ![r] = new]
      BY <1>4
    <2>6. \A c \in mine : Exists(c)
      <3> SUFFICES ASSUME NEW a \in AttemptsOf(j) PROVE Exists(a[1])
        OBVIOUS
      <3>1. a[1] \in Cases /\ Bound(a[1], a[2], j) /\ j \in Jobs
        BY <1>2, AttemptRows DEF RemediationInv, ReviewFits
      <3>2. case[a[1]].status = "verification_pending"
        BY <1>4, <3>1, RemediationAssumption
        DEF RemediationInv, AttemptsFit, AttemptFits, Bound, Waiting
      <3> QED BY <3>2 DEF Exists
    <2> HIDE DEF mine
    <2>7. /\ new \in Request /\ new.pc = "holding" /\ new.seen = [c \in mine |-> case[c]]
          /\ new.job = j /\ new.command = req[r].command
          /\ new.resolution = req[r].resolution
      BY <1>2, <2>2 DEF Request
    <2> HIDE DEF new
    <2>8. req'[r] = new
      BY <2>5 DEF RemediationInv, Typed
    <2>9. ReviewFits(r)'
      <3>1. Untriaged(req[r].job)' = Untriaged(j) /\ AttemptsOf(req[r].job)' = AttemptsOf(j)
        BY <1>1, <2>7, <2>8 DEF Untriaged, AttemptsOf, rowVars
      <3> QED BY <1>1, <1>2, <2>7, <2>8, <3>1 DEF ReviewFits, rowVars
    <2>10. HoldingFits(r)'
      <3>1. status'[j] = "needs_review" /\ req'[r].job = j
        BY <1>1, <1>4, <2>7, <2>8 DEF rowVars
      <3>2. \A c \in Cases : \A n \in DOMAIN attempts'[c] :
              Bound(c, n, req[r].job)' => c \in DOMAIN req'[r].seen /\ req'[r].seen[c] = case'[c]
        BY <1>1, <2>3, <2>7, <2>8 DEF Bound, rowVars
      <3>3. req'[r].command = "reject" =>
              \A c \in Cases : Source[c] = req'[r].job /\ Exists(c)' =>
                /\ c \in DOMAIN req'[r].seen
                /\ req'[r].seen[c] = case'[c]
        BY <1>1, <2>4, <2>7, <2>8 DEF Exists, rowVars
      <3>4. \A c \in DOMAIN req'[r].seen : Exists(c)'
        BY <1>1, <2>7, <2>8, <2>6 DEF Exists, rowVars
      <3> QED BY <3>1, <3>2, <3>3, <3>4 DEF HoldingFits
    <2>11. RequestFits(r)'
      BY <2>7, <2>8, <2>9, <2>10 DEF RequestFits, At
    <2>12. \A q \in Requests : ~(Holds(q) /\ req[q].job = new.job)
      BY <2>7 DEF TakeJob
    <2> QED BY <1>1, <2>5, <2>7, <2>11, <2>12, ReadingStep
  <1> QED BY <1>3, <1>4 DEF TakeJob

-----------------------------------------------------------------------------
(* Steps that write rows: what they leave of what others read.             *)

\* The result of a job under review or beyond stays, and an approved job is
\* never written again.
JobsMoveOn ==
  \A j \in Jobs :
    /\ status[j] \in Reviewed => status'[j] \in Reviewed /\ result'[j] = result[j]
    /\ status[j] = "approved" => status'[j] = "approved" /\ seal'[j] = seal[j]
    /\ status[j] # "absent" => status'[j] # "absent"

\* A case only moves on.  One whose source is approved has a new version when
\* it changes, and one that waits for a review changes only with that review.
CasesMoveOn ==
  \A c \in Cases :
    /\ Exists(c) => case'[c].status # "absent"
    /\ ~Exists(c) /\ case'[c].status # "absent" => status[Source[c]] \notin Reviewed
    /\ case'[c].status = "pending_triage" => ~Exists(c) \/ case[c].status = "pending_triage"
    /\ case[c].status = "dismissed" => case'[c].status = "dismissed"
    /\ status[Source[c]] = "approved" =>
         \/ case'[c] = case[c] /\ Len(attempts'[c]) = Len(attempts[c])
         \/ case'[c].version > case[c].version

MovesOn == JobsMoveOn /\ CasesMoveOn /\ BindingsStay

LEMMA RequestStays ==
  ASSUME RemediationInv, Typed', MovesOn, NEW r \in Requests, req'[r] = req[r],
         Holds(r) => status'[req[r].job] = status[req[r].job]
  PROVE  RequestFits(r)'
  <1>1. RequestFits(r) /\ req[r] \in Request
    BY DEF RemediationInv, Typed
  <1>2. ASSUME At(r, "checked") PROVE CommandFits(r)'
    <2> DEFINE c == req[r].case
    <2>1. CommandFits(r) /\ c \in Cases /\ Source[c] \in Jobs
      BY <1>1, <1>2, RemediationAssumption DEF RequestFits, CommandFits
    <2>2. case[c].version \in Nat /\ case'[c].version \in Nat
      BY <2>1 DEF RemediationInv, Typed, FindingCase
    <2>3. c \in DOMAIN req[r].seen /\ req[r].seen[c].version \in Nat
      BY <1>1, <2>1 DEF CommandFits, Request, Seen, FindingCase
    <2>4. Exists(c)' /\ (status[Source[c]] = "approved" => status'[Source[c]] = "approved")
      BY <2>1 DEF CommandFits, MovesOn, CasesMoveOn, JobsMoveOn, Exists
    <2>5. status[Source[c]] = "approved" =>
            \/ case'[c] = case[c] /\ Len(attempts'[c]) = Len(attempts[c])
            \/ case'[c].version > case[c].version
      BY <2>1 DEF MovesOn, CasesMoveOn
    <2> QED BY <2>1, <2>2, <2>3, <2>4, <2>5 DEF CommandFits
  <1>3. ASSUME ReviewFits(r) PROVE ReviewFits(r)'
    <2> DEFINE j == req[r].job
    <2>1. j \in Jobs /\ status[j] \in Reviewed /\ status'[j] \in Reviewed
      BY <1>3 DEF ReviewFits, MovesOn, JobsMoveOn
    <2>2. Untriaged(j) = {} => Untriaged(j)' = {}
      BY <2>1 DEF Untriaged, MovesOn, CasesMoveOn, Exists
    <2>3. AttemptsOf(j) = {} <=> AttemptsOf(j)' = {}
      <3>1. PICK k \in Jobs : k = req[r].job
        BY <2>1
      <3>2. AttemptsOf(k)' = AttemptsOf(k)
        BY <2>1, <3>1, AttemptsStay DEF RemediationInv, MovesOn, Reviewed
      <3> QED BY <3>1, <3>2
    <2> QED BY <1>3, <2>1, <2>2, <2>3 DEF ReviewFits
  <1>4. ASSUME Holds(r), ReviewFits(r), HoldingFits(r) PROVE HoldingFits(r)'
    <2> DEFINE j == req[r].job
    <2>1. j \in Jobs /\ status[j] = "needs_review" /\ status'[j] = "needs_review"
      BY <1>4 DEF ReviewFits, HoldingFits
    <2>2. \A c \in Cases : \A n \in DOMAIN attempts'[c] :
            attempts'[c][n].job = j => c \in DOMAIN req[r].seen /\ req[r].seen[c] = case'[c]
      BY <1>4, <2>1 DEF HoldingFits, MovesOn, BindingsStay, Bound
    <2>4. \A c \in DOMAIN req[r].seen : Exists(c)'
      <3>1. DOMAIN req[r].seen \subseteq Cases
        BY <1>1 DEF Request, Seen
      <3> QED BY <1>4, <3>1 DEF HoldingFits, MovesOn, CasesMoveOn, Exists
    <2>3. req[r].command = "reject" =>
            \A c \in Cases : Source[c] = j /\ case'[c].status # "absent" =>
              /\ c \in DOMAIN req[r].seen
              /\ req[r].seen[c].status = "dismissed" => case'[c].status = "dismissed"
      BY <1>4, <2>1 DEF HoldingFits, MovesOn, CasesMoveOn, Exists, Reviewed
    <2> QED BY <2>1, <2>2, <2>3, <2>4 DEF HoldingFits, Bound, Exists
  <1> QED BY <1>1, <1>2, <1>3, <1>4 DEF RequestFits, Holds, At

LEMMA ContextStays ==
  ASSUME Typed, Typed', OneAttemptPerJob, BindingsStay, NEW j \in Jobs,
         status[j] = "sealing", status'[j] = "sealing"
  PROVE  Context(j)' = Context(j)
  <1>1. AttemptsOf(j)' = AttemptsOf(j)
    BY AttemptsStay
  <1>2. CASE AttemptsOf(j) = {}
    BY <1>1, <1>2 DEF Context
  <1>3. CASE AttemptsOf(j) # {}
    <2>1. PICK c \in Cases, n \in 1..MaxAttempts : Bound(c, n, j)
      BY <1>3, AttemptRows
    <2>2. AttemptsOf(j) = {<<c, n>>}
      BY <2>1, ContextIsTheRow
    <2>3. case'[c] = case[c] /\ attempts'[c][n] = attempts[c][n]
      BY <2>1 DEF BindingsStay
    <2>4. Context(j) = [case |-> c, no |-> n, status |-> case[c].status,
                        version |-> case[c].version,
                        resolution |-> attempts[c][n].resolution]
      BY <2>1, ContextIsTheRow
    <2>5. AttemptsOf(j)' = {<<c, n>>}
      BY <1>1, <2>2
    <2>6. Context(j)' = [case |-> c, no |-> n, status |-> case'[c].status,
                         version |-> case'[c].version,
                         resolution |-> attempts'[c][n].resolution]
      <3>1. (CHOOSE a \in AttemptsOf(j)' : TRUE) = <<c, n>>
        BY <2>5
      <3> QED BY <2>5, <3>1 DEF Context
    <2> QED BY <2>3, <2>4, <2>6
  <1> QED BY <1>2, <1>3

\* The rows a step leaves alone keep what is true of them.
LEMMA CaseRowStays ==
  ASSUME RemediationInv, JobsMoveOn, NEW c \in Cases, case'[c] = case[c],
         attempts'[c] = attempts[c], changes'[c] = changes[c]
  PROVE  CaseFits(c)'
  <1>1. CaseFits(c) /\ Source[c] \in Jobs
    BY RemediationAssumption DEF RemediationInv
  <1>2. Exists(c) => status'[Source[c]] \in Reviewed /\ IsFaithful(c)'
    BY <1>1 DEF CaseFits, IsFaithful, JobsMoveOn
  <1>3. status[Source[c]] = "approved" => status'[Source[c]] = "approved"
    BY <1>1 DEF JobsMoveOn
  <1>4. IsClosedProperly(c) => IsClosedProperly(c)'
    <2> SUFFICES ASSUME NEW n \in DOMAIN attempts[c], IsClosedProperly(c)!(n)
                 PROVE  IsClosedProperly(c)'
      BY DEF IsClosedProperly
    <2>1. attempts[c][n].job \in Jobs
      BY AttemptTyped DEF RemediationInv, Attempt
    <2>2. /\ status'[attempts[c][n].job] = "approved"
          /\ seal'[attempts[c][n].job] = seal[attempts[c][n].job]
      BY <2>1 DEF JobsMoveOn
    <2> QED BY <2>1, <2>2 DEF IsClosedProperly
  <1> QED BY <1>1, <1>2, <1>3, <1>4 DEF CaseFits, Exists

LEMMA AttemptRowStays ==
  ASSUME RemediationInv, NEW c \in Cases, NEW n \in DOMAIN attempts[c],
         case'[c].status = case[c].status, case'[c].active = case[c].active,
         attempts'[c][n] = attempts[c][n],
         LET j == attempts[c][n].job IN
           \/ j = NoJob \/ status'[j] = status[j]
           \/ status[j] \in {"queued", "failed", "dead"} /\ status'[j] \in Waiting \ {"sealing"}
  PROVE  AttemptFits(c, n)'
  <1>1. AttemptFits(c, n)
    BY DEF RemediationInv, AttemptsFit
  <1>2. attempts[c][n].job = NoJob \/ attempts[c][n].job \in Jobs
    BY AttemptTyped DEF RemediationInv, Attempt
  <1> QED BY <1>1, <1>2 DEF AttemptFits, Waiting

LEMMA SealStays ==
  ASSUME RemediationInv, Typed', BindingsStay, NEW j \in Jobs,
         seal'[j] = seal[j],
         \/ status'[j] = status[j]
         \/ status[j] \notin {"sealing", "approved"} /\ status'[j] \notin {"sealing", "approved"}
  PROVE  SealFits(j)'
  <1>1. SealFits(j)
    BY DEF RemediationInv
  <1>2. status[j] = "sealing" /\ status'[j] = "sealing" => Context(j)' = Context(j)
    BY ContextStays DEF RemediationInv
  <1> QED BY <1>1, <1>2 DEF SealFits

LEMMA NewJobsAreFree ==
  ASSUME RemediationInv, NEW j \in Jobs, status[j] = "absent", NEW c \in Cases, NEW n
  PROVE  ~Bound(c, n, j)
  BY RemediationAssumption DEF RemediationInv, AttemptsFit, AttemptFits, Bound

LEMMA OneAttemptStays ==
  ASSUME RemediationInv, BindingsStay,
         \A j \in Jobs : status[j] = "absent" =>
           \A c \in Cases : \A n : ~Bound(c, n, j)'
  PROVE  OneAttemptPerJob'
  BY DEF RemediationInv, OneAttemptPerJob, BindingsStay, Bound

-----------------------------------------------------------------------------
(* What FindingLifecycle sees of the cases.                                *)

stages == [c \in Cases |-> case[c].status]
verifiers == [c \in Cases |->
                IF case[c].status = "verification_pending"
                THEN attempts[c][case[c].active].job ELSE NoJob]
usedJobs == {j \in Jobs : AttemptsOf(j) # {}}
closures == [c \in Cases |-> case[c].proof]

LifecycleStep == Lifecycle!Next \/ UNCHANGED <<stages, verifiers, usedJobs, closures>>

\* No job is bound in this step.
BoundsStay ==
  \A c \in Cases, j \in Jobs : \A n :
    n \in DOMAIN attempts'[c] /\ attempts'[c][n].job = j <=> Bound(c, n, j)

\* Case c waits for the same job as before.
WaitsOn(c) ==
  /\ case'[c].status = "verification_pending" <=> case[c].status = "verification_pending"
  /\ case[c].status = "verification_pending" => case'[c].active = case[c].active

LEMMA UsedStay ==
  ASSUME Typed, Typed', BoundsStay
  PROVE  usedJobs' = usedJobs
  <1> SUFFICES ASSUME NEW j \in Jobs
               PROVE  AttemptsOf(j)' # {} <=> AttemptsOf(j) # {}
    BY DEF usedJobs
  <1>1. \A c \in Cases : \A n : <<c, n>> \in AttemptsOf(j)' <=> <<c, n>> \in AttemptsOf(j)
    <2> SUFFICES ASSUME NEW c \in Cases, NEW n
                 PROVE  <<c, n>> \in AttemptsOf(j)' <=> <<c, n>> \in AttemptsOf(j)
      OBVIOUS
    <2>1. <<c, n>> \in AttemptsOf(j) <=> Bound(c, n, j)
      BY AttemptRows
    <2>2. <<c, n>> \in AttemptsOf(j)' <=> n \in DOMAIN attempts'[c] /\ attempts'[c][n].job = j
      BY AttemptRowsNext
    <2> QED BY <2>1, <2>2 DEF BoundsStay
  <1>2. /\ AttemptsOf(j) \subseteq Cases \X (1..MaxAttempts)
        /\ AttemptsOf(j)' \subseteq Cases \X (1..MaxAttempts)
    BY DEF AttemptsOf
  <1> QED BY <1>1, <1>2

LEMMA VerifierStays ==
  ASSUME RemediationInv, BoundsStay, NEW c \in Cases, WaitsOn(c)
  PROVE  verifiers'[c] = verifiers[c]
  <1>1. CASE case[c].status = "verification_pending"
    <2>1. PICK n : n = case[c].active
      OBVIOUS
    <2>2. n \in DOMAIN attempts[c] /\ attempts[c][n].job # NoJob
      BY <1>1, <2>1 DEF RemediationInv, CaseFits
    <2>3. PICK j \in Jobs : j = attempts[c][n].job
      BY <2>2, AttemptTyped DEF RemediationInv, Attempt
    <2>4. attempts'[c][n].job = j
      BY <2>2, <2>3 DEF BoundsStay, Bound
    <2> QED BY <1>1, <2>1, <2>3, <2>4 DEF WaitsOn, verifiers
  <1>2. CASE case[c].status # "verification_pending"
    BY <1>2 DEF WaitsOn, verifiers
  <1> QED BY <1>1, <1>2

\* Nothing of this is seen, or some cases move and the others stay.
LEMMA Unseen ==
  ASSUME RemediationInv, Typed', BoundsStay,
         \A c \in Cases : /\ case'[c].status = case[c].status
                          /\ case'[c].proof = case[c].proof
                          /\ WaitsOn(c)
  PROVE  LifecycleStep
  <1>1. \A c \in Cases : verifiers'[c] = verifiers[c]
    BY VerifierStays
  <1>2. verifiers' = verifiers
    BY <1>1 DEF verifiers
  <1>3. usedJobs' = usedJobs
    BY UsedStay DEF RemediationInv
  <1>4. stages' = stages /\ closures' = closures
    BY DEF stages, closures
  <1> QED BY <1>2, <1>3, <1>4 DEF LifecycleStep

LEMMA Moved ==
  ASSUME RemediationInv, Typed', BoundsStay, NEW from, NEW to,
         "verification_pending" \notin from, to # "verification_pending",
         NEW some \in SUBSET Cases, some # {},
         \A c \in some : case[c].status \in from /\ case'[c].status = to,
         \A c \in Cases \ some : case'[c].status = case[c].status /\ WaitsOn(c),
         \A c \in Cases : case'[c].proof = case[c].proof
  PROVE  Lifecycle!Move(from, to)
  <1>1. \A c \in Cases : verifiers'[c] = verifiers[c]
    BY VerifierStays DEF WaitsOn
  <1>2. verifiers' = verifiers
    BY <1>1 DEF verifiers
  <1>3. usedJobs' = usedJobs
    BY UsedStay DEF RemediationInv
  <1>4. closures' = closures
    BY DEF closures
  <1>5. some \in SUBSET {c \in Cases : stages[c] \in from}
    BY DEF stages
  <1>6. stages' = [c \in Cases |-> IF c \in some THEN to ELSE stages[c]]
    BY DEF stages
  <1> QED BY <1>2, <1>3, <1>4, <1>5, <1>6
        DEF Lifecycle!Move, stages, verifiers, usedJobs, closures

-----------------------------------------------------------------------------
(* Analyses that start, fail or start again, and the first stage of a saga. *)

LEMMA RestartStep ==
  ASSUME RemediationInv, Typed', UNCHANGED <<case, attempts, seal, req, changes>>,
         NEW k \in Jobs, NEW new \in {"queued", "failed", "dead"},
         status[k] \in {"absent", "queued", "failed", "dead"},
         status' = [status EXCEPT ![k] = new],
         \A j \in Jobs \ {k} : result'[j] = result[j]
  PROVE  RemediationInv'
  <1>1. status'[k] = new /\ \A j \in Jobs \ {k} : status'[j] = status[j]
    BY DEF RemediationInv, Typed
  <1>2. JobsMoveOn
    BY <1>1 DEF JobsMoveOn, Reviewed
  <1>3. CasesMoveOn /\ BindingsStay
    BY DEF CasesMoveOn, BindingsStay, Exists, Bound
  <1>4. (\A c \in Cases : CaseFits(c))'
    BY <1>2, CaseRowStays
  <1>5. ReviewedSourceIsDecided'
    BY <1>1, RemediationAssumption DEF RemediationInv, ReviewedSourceIsDecided, Exists
  <1>6. LiveVersionNamesOneChange'
    BY DEF RemediationInv, LiveVersionNamesOneChange
  <1>7. AttemptsFit'
    <2> SUFFICES ASSUME NEW c \in Cases, NEW n \in DOMAIN attempts[c]
                 PROVE  AttemptFits(c, n)'
      BY DEF AttemptsFit
    <2> DEFINE j == attempts[c][n].job
    <2>1. j = NoJob \/ j \in Jobs
      BY AttemptTyped DEF RemediationInv, Attempt
    <2>2. j \in Jobs => status[j] # "absent"
      BY NewJobsAreFree DEF Bound
    <2>3. \/ j = NoJob \/ status'[j] = status[j]
          \/ status[j] \in {"queued", "failed", "dead"} /\ status'[j] \in Waiting \ {"sealing"}
      BY <1>1, <2>1, <2>2 DEF Waiting
    <2> QED BY <2>3, AttemptRowStays
  <1>8. OneAttemptPerJob'
    BY DEF RemediationInv, OneAttemptPerJob, Bound
  <1>9. (\A j \in Jobs : SealFits(j))'
    BY <1>1, <1>3, SealStays
  <1>10. (\A r \in Requests : RequestFits(r))'
    <2> SUFFICES ASSUME NEW r \in Requests PROVE RequestFits(r)'
      OBVIOUS
    <2>1. Holds(r) => status'[req[r].job] = status[req[r].job]
      <3>1. Holds(r) => req[r].job \in Jobs /\ status[req[r].job] = "needs_review"
        BY DEF RemediationInv, RequestFits, ReviewFits, HoldingFits, Holds, At
      <3> QED BY <1>1, <3>1
    <2> QED BY <1>2, <1>3, <2>1, RequestStays DEF MovesOn
  <1>11. OneHolder'
    BY DEF RemediationInv, OneHolder, Holds, At
  <1> QED BY <1>4, <1>5, <1>6, <1>7, <1>8, <1>9, <1>10, <1>11 DEF RemediationInv

LEMMA JobSubmitted ==
  ASSUME RemediationInv, NEW j \in Jobs, Submit(j)
  PROVE  RemediationInv'
  <1>1. Typed'
    BY DEF Submit, RemediationInv, Typed, JobStates
  <1> QED BY <1>1, RestartStep DEF Submit

LEMMA AnalysisFailed ==
  ASSUME RemediationInv, NEW j \in Jobs, NEW final \in BOOLEAN, FailAnalysis(j, final)
  PROVE  RemediationInv'
  <1> DEFINE new == IF final \/ runs'[j] = MaxRuns THEN "dead" ELSE "failed"
  <1>1. status' = [status EXCEPT ![j] = new] /\ new \in {"dead", "failed"}
    BY DEF FailAnalysis
  <1> HIDE DEF new
  <1>2. runs' \in [Jobs -> 0..MaxRuns]
    BY RemediationAssumption DEF FailAnalysis, RemediationInv, Typed
  <1>3. Typed'
    BY <1>1, <1>2 DEF FailAnalysis, RemediationInv, Typed, JobStates
  <1> QED BY <1>1, <1>3, RestartStep DEF FailAnalysis

LEMMA JobRetried ==
  ASSUME RemediationInv, NEW j \in Jobs, Retry(j)
  PROVE  RemediationInv'
  <1>1. Typed'
    BY RemediationAssumption DEF Retry, RemediationInv, Typed, JobStates
  <1>2. \A k \in Jobs \ {j} : result'[k] = result[k]
    BY DEF Retry, RemediationInv, Typed
  <1> QED BY <1>1, <1>2, RestartStep DEF Retry

LEMMA Staged ==
  ASSUME RemediationInv, NEW j \in Jobs, Stage(j)
  PROVE  RemediationInv'
  <1>1. SealFits(j) /\ status[j] = "sealing"
    BY DEF RemediationInv, SealFits, Stage
  <1>2. seal' = [seal EXCEPT ![j].state = "staged"]
    BY <1>1 DEF SealFits, Stage
  <1>3. /\ seal'[j].state = "staged" /\ seal'[j].frozen = seal[j].frozen
        /\ \A k \in Jobs \ {j} : seal'[k] = seal[k]
    BY <1>2 DEF RemediationInv, Typed
  <1>4. Typed'
    BY <1>2 DEF Stage, RemediationInv, Typed, SealStates
  <1>5. JobsMoveOn
    BY <1>1, <1>3 DEF JobsMoveOn, Stage
  <1>6. CasesMoveOn /\ BindingsStay
    BY DEF CasesMoveOn, BindingsStay, Exists, Bound, Stage
  <1>7. (\A c \in Cases : CaseFits(c))'
    BY <1>5, CaseRowStays DEF Stage
  <1>8. (ReviewedSourceIsDecided /\ LiveVersionNamesOneChange /\ AttemptsFit
         /\ OneAttemptPerJob /\ OneHolder)'
    BY DEF RemediationInv, ReviewedSourceIsDecided, LiveVersionNamesOneChange,
           AttemptsFit, AttemptFits, OneAttemptPerJob, OneHolder, Bound, Exists,
           Holds, At, Stage
  <1>9. (\A k \in Jobs : SealFits(k))'
    <2>1. ASSUME NEW k \in Jobs, k # j PROVE SealFits(k)'
      BY <1>3, <1>4, <1>6, <2>1, SealStays DEF Stage
    <2>2. Context(j)' = Context(j)
      BY <1>1, <1>4, <1>6, ContextStays DEF RemediationInv, Stage
    <2>3. SealFits(j)'
      BY <1>1, <1>3, <2>2 DEF SealFits, Stage
    <2> QED BY <2>1, <2>3
  <1>10. (\A r \in Requests : RequestFits(r))'
    BY <1>4, <1>5, <1>6, RequestStays DEF MovesOn, Stage
  <1> QED BY <1>4, <1>7, <1>8, <1>9, <1>10 DEF RemediationInv

-----------------------------------------------------------------------------
(* Requests that end.                                                      *)

LEMMA RequestsEnd ==
  ASSUME RemediationInv, Typed', MovesOn, NEW r \in Requests, Finish(r),
         \A q \in Requests \ {r} : Holds(q) => status'[req[q].job] = status[req[q].job]
  PROVE  (\A q \in Requests : RequestFits(q))' /\ OneHolder'
  <1>1. req'[r] = Idle /\ \A q \in Requests \ {r} : req'[q] = req[q]
    BY DEF Finish, RemediationInv, Typed
  <1>2. RequestFits(r)'
    BY <1>1, IdleIsTyped DEF RequestFits, At
  <1>3. ASSUME NEW q \in Requests, q # r PROVE RequestFits(q)'
    BY <1>1, <1>3, RequestStays
  <1>4. OneHolder'
    BY <1>1, IdleIsTyped DEF RemediationInv, OneHolder, Holds, At
  <1> QED BY <1>2, <1>3, <1>4

\* A command that loses, and a review that does not get its job.
LEMMA NothingWritten ==
  ASSUME RemediationInv, NEW r \in Requests, UNCHANGED rowVars, Finish(r)
  PROVE  RemediationInv'
  <1>1. req' = [req EXCEPT ![r] = Idle] /\ req'[r] = Idle
    BY DEF Finish, RemediationInv, Typed
  <1>2. RequestFits(r)'
    BY <1>1, IdleIsTyped DEF RequestFits, At
  <1> QED BY <1>1, <1>2, IdleIsTyped, ReadingStep

LEMMA HeldIsUnderReview ==
  ASSUME RemediationInv, NEW r \in Requests, Holds(r)
  PROVE  req[r].job \in Jobs /\ status[req[r].job] = "needs_review"
  BY DEF RemediationInv, RequestFits, ReviewFits, HoldingFits, Holds, At

-----------------------------------------------------------------------------
(* An analysis that ends well.                                             *)

LEMMA AnalysisFinished ==
  ASSUME RemediationInv, NEW j \in Jobs, NEW found \in SUBSET Cases, FinishAnalysis(j, found)
  PROVE  RemediationInv' /\ LifecycleStep
  <1>1. /\ status[j] = "queued" /\ status'[j] = "needs_review"
        /\ \A k \in Jobs \ {j} : status'[k] = status[k] /\ result'[k] = result[k]
        /\ result'[j] = runs[j] + 1 /\ runs[j] \in Nat /\ runs[j] < MaxRuns
    BY RemediationAssumption DEF FinishAnalysis, RemediationInv, Typed
  <1>2. UNCHANGED <<attempts, seal, req, changes>>
    BY DEF FinishAnalysis
  <1>3. \A c \in Cases \ found : case'[c] = case[c]
    BY DEF FinishAnalysis
  <1>4. ASSUME NEW c \in found
        PROVE  /\ case'[c] \in FindingCase
               /\ case'[c].status = "pending_triage" /\ case'[c].version = 0
               /\ case'[c].active = 0 /\ case'[c].proof = NoJob
               /\ case'[c].result = runs[j] + 1
               /\ Source[c] = j /\ ~Exists(c) /\ c \in Cases
    <2>1. case'[c] = [NoFindingCase EXCEPT !.status = "pending_triage", !.result = runs[j] + 1]
      BY DEF FinishAnalysis
    <2>2. runs[j] + 1 \in 0..MaxRuns /\ 0 \in 0..MaxAttempts
      BY <1>1, RemediationAssumption
    <2> QED BY <2>1, <2>2 DEF NoFindingCase, FindingCase, CASE_STATUSES, FinishAnalysis
  <1>5. Typed'
    <2>1. case' \in [Cases -> FindingCase]
      BY <1>3, <1>4 DEF FinishAnalysis, RemediationInv, Typed
    <2>2. runs' \in [Jobs -> 0..MaxRuns] /\ result' \in [Jobs -> 0..MaxRuns]
      BY <1>1, RemediationAssumption DEF FinishAnalysis, RemediationInv, Typed
    <2> QED BY <2>1, <2>2 DEF FinishAnalysis, RemediationInv, Typed, JobStates
  <1>6. JobsMoveOn
    BY <1>1, <1>2 DEF JobsMoveOn, Reviewed
  <1>7. ASSUME NEW c \in found
        PROVE  attempts[c] = <<>> /\ changes[c] = 0
    BY <1>4, <1>7 DEF RemediationInv, CaseFits, Exists
  <1>8. CasesMoveOn
    BY <1>1, <1>2, <1>3, <1>4 DEF CasesMoveOn, Exists, Reviewed
  <1>9. BindingsStay
    BY <1>2, <1>3, <1>7 DEF BindingsStay, Bound
  <1>10. (\A c \in Cases : CaseFits(c))'
    <2>1. ASSUME NEW c \in found PROVE CaseFits(c)'
      BY <1>1, <1>2, <1>4, <1>7, <2>1
      DEF CaseFits, Exists, IsFaithful, Reviewed, Remediated
    <2> QED BY <1>2, <1>3, <1>6, <2>1, CaseRowStays
  <1>11. ReviewedSourceIsDecided'
    <2> SUFFICES ASSUME NEW c \in Cases, Exists(c)'
                 PROVE  /\ status'[Source[c]] \in {"sealing", "approved"} =>
                             c \in Demo \/ case'[c].status # "pending_triage"
                        /\ status'[Source[c]] = "rejected" => case'[c].status = "dismissed"
      BY DEF ReviewedSourceIsDecided
    <2>1. CASE Source[c] = j
      BY <1>1, <2>1
    <2>2. CASE Source[c] # j
      BY <1>1, <1>3, <1>4, <2>2, RemediationAssumption
      DEF RemediationInv, ReviewedSourceIsDecided, Exists
    <2> QED BY <2>1, <2>2
  <1>12. LiveVersionNamesOneChange'
    BY <1>2, <1>3, <1>4, <1>7 DEF RemediationInv, LiveVersionNamesOneChange
  <1>13. AttemptsFit'
    <2> SUFFICES ASSUME NEW c \in Cases, NEW n \in DOMAIN attempts[c]
                 PROVE  AttemptFits(c, n)'
      BY <1>2 DEF AttemptsFit
    <2>1. case'[c] = case[c] /\ attempts'[c][n] = attempts[c][n]
      BY <1>2, <1>3, <1>7
    <2>2. attempts[c][n].job = NoJob \/ attempts[c][n].job \in Jobs
      BY AttemptTyped DEF RemediationInv, Attempt
    <2> QED BY <1>1, <2>1, <2>2, AttemptRowStays DEF Waiting
  <1>14. OneAttemptPerJob'
    BY <1>2 DEF RemediationInv, OneAttemptPerJob, Bound
  <1>15. (\A k \in Jobs : SealFits(k))'
    BY <1>1, <1>2, <1>5, <1>9, SealStays
  <1>16. (\A r \in Requests : RequestFits(r))'
    BY <1>1, <1>2, <1>5, <1>6, <1>8, <1>9, HeldIsUnderReview, RequestStays DEF MovesOn
  <1>17. OneHolder'
    BY <1>2 DEF RemediationInv, OneHolder, Holds, At
  <1>18. LifecycleStep
    <2>1. BoundsStay
      BY <1>2 DEF BoundsStay, Bound
    <2>2. \A c \in Cases \ found : case'[c].status = case[c].status /\ WaitsOn(c)
      BY <1>3 DEF WaitsOn
    <2>3. \A c \in Cases : case'[c].proof = case[c].proof
      <3>1. \A c \in found : case[c].proof = NoJob
        BY <1>4 DEF RemediationInv, CaseFits, NoFindingCase
      <3> QED BY <1>3, <1>4, <3>1
    <2>4. CASE found = {}
      BY <1>5, <2>1, <2>2, <2>3, <2>4, Unseen
    <2>5. CASE found # {}
      <3>1. \A c \in found : case[c].status \in {"absent"} /\ case'[c].status = "pending_triage"
        BY <1>4 DEF Exists
      <3>2. Lifecycle!Move({"absent"}, "pending_triage")
        BY <1>5, <2>1, <2>2, <2>3, <2>5, <3>1, Moved
      <3> QED BY <3>2 DEF LifecycleStep, Lifecycle!Next, Lifecycle!Report
    <2> QED BY <2>4, <2>5
  <1> QED BY <1>5, <1>10, <1>11, <1>12, <1>13, <1>14, <1>15, <1>16, <1>17, <1>18 DEF RemediationInv

-----------------------------------------------------------------------------
(* Commands on a case.                                                     *)

LEMMA CommandWritten ==
  ASSUME RemediationInv, NEW r \in Requests, WriteCommand(r), Commits(r)
  PROVE  RemediationInv' /\ LifecycleStep
  <1> DEFINE target == TargetStatus[req[r].command]
  <1>0. PICK c \in Cases : c = req[r].case
    BY DEF WriteCommand, RemediationInv, RequestFits, CommandFits
  <1>1. /\ Exists(c) /\ Loaded(r).version = case[c].version
        /\ req[r].command \in {"finding_confirmed", "finding_dismissed"} =>
             case[c].status = "pending_triage"
        /\ req[r].command = "remediation_started" =>
             case[c].status = "open" /\ status[Source[c]] = "approved"
        /\ req[r].key \in Keys
    <2>1. At(r, "checked") /\ Wins(r) /\ CommandFits(r)
      BY DEF WriteCommand, Commits, RemediationInv, RequestFits
    <2>2. req[r].command # "bind"
      BY DEF WriteCommand, CaseCommands, TargetStatus
    <2> QED BY <1>0, <2>1, <2>2, Winner DEF CommandFits
  <1>2. \/ req[r].command = "finding_confirmed" /\ target = "open"
        \/ req[r].command = "finding_dismissed" /\ target = "dismissed"
        \/ req[r].command = "remediation_started" /\ target = "remediation_in_progress"
    BY DEF WriteCommand, CaseCommands, TargetStatus
  <1>3. UNCHANGED <<status, runs, result, attempts, seal>> /\ Finish(r)
    BY DEF WriteCommand
  <1>4. CaseFits(c) /\ case[c] \in FindingCase /\ Source[c] \in Jobs
    BY <1>1, RemediationAssumption DEF RemediationInv, Typed
  <1>5. /\ case' = [case EXCEPT ![c].status = target, ![c].version = case[c].version + 1]
        /\ commands' = commands \cup {CommandRow(r)}
        /\ CountChange({c})
    BY <1>0, <1>1 DEF WriteCommand
  <1> HIDE DEF target
  <1>6. /\ case'[c].status = target /\ case'[c].version = case[c].version + 1
        /\ case'[c].active = case[c].active /\ case'[c].proof = case[c].proof
        /\ case'[c].result = case[c].result
        /\ \A d \in Cases \ {c} : case'[d] = case[d]
    BY <1>1, <1>4, <1>5 DEF RemediationInv, Typed, FindingCase
  <1>7. /\ changes'[c] = changes[c] + 1
        /\ \A d \in Cases \ {c} : changes'[d] = changes[d]
    BY <1>1, <1>5 DEF CountChange
  <1>8. /\ case[c].active = 0 /\ attempts[c] = <<>> /\ case[c].proof = NoJob
        /\ case[c].version = IF target = "remediation_in_progress" THEN 1 ELSE 0
        /\ case[c].status \in {"pending_triage", "open"}
        /\ changes[c] = case[c].version
    BY <1>1, <1>2, <1>4 DEF CaseFits, RemediationInv, LiveVersionNamesOneChange
  <1>9. Typed'
    <2>1. case' \in [Cases -> FindingCase]
      <3>0. PICK v \in Nat : v = case[c].version + 1
        BY <1>4 DEF FindingCase
      <3> DEFINE row == [case[c] EXCEPT !.status = target, !.version = v]
      <3>1. target \in CASE_STATUSES
        BY <1>2 DEF CASE_STATUSES
      <3>2. row \in FindingCase
        BY <1>4, <3>1 DEF FindingCase
      <3>3. case' = [case EXCEPT ![c] = row]
        BY <1>5, <3>0
      <3> HIDE DEF row
      <3> QED BY <3>2, <3>3 DEF RemediationInv, Typed
    <2>2. CommandRow(r) \in [key : Keys, case : Cases, command : Commands, version : Nat]
      BY <1>0, <1>1, <1>2, <1>4 DEF CommandRow, FindingCase, Commands, CaseCommands, TargetStatus
    <2>3. changes' \in [Cases -> Nat]
      BY <1>5 DEF RemediationInv, Typed, CountChange
    <2>4. req' \in [Requests -> Request]
      BY <1>3, IdleIsTyped DEF Finish, RemediationInv, Typed
    <2> QED BY <1>3, <1>5, <2>1, <2>2, <2>3, <2>4 DEF RemediationInv, Typed
  <1>10. JobsMoveOn
    BY <1>3 DEF JobsMoveOn
  <1>11. CasesMoveOn
    BY <1>1, <1>2, <1>3, <1>4, <1>6, <1>8 DEF CasesMoveOn, Exists, FindingCase
  <1>12. BindingsStay
    BY <1>3, <1>6, <1>8 DEF BindingsStay, Bound
  <1>13. (\A d \in Cases : CaseFits(d))'
    <2>1. CaseFits(c)'
      <3>1. status'[Source[c]] \in Reviewed /\ IsFaithful(c)'
        BY <1>1, <1>3, <1>4, <1>6 DEF CaseFits, IsFaithful
      <3> QED BY <1>1, <1>2, <1>3, <1>6, <1>8, <3>1 DEF CaseFits, Exists, Remediated
    <2> QED BY <1>3, <1>6, <1>7, <1>10, <2>1, CaseRowStays
  <1>14. ReviewedSourceIsDecided'
    BY <1>1, <1>2, <1>3, <1>6, <1>8 DEF RemediationInv, ReviewedSourceIsDecided, Exists
  <1>15. LiveVersionNamesOneChange'
    BY <1>6, <1>7, <1>8 DEF RemediationInv, LiveVersionNamesOneChange
  <1>16. AttemptsFit'
    BY <1>3, <1>6, <1>8, AttemptRowStays DEF AttemptsFit
  <1>17. OneAttemptPerJob'
    BY <1>3 DEF RemediationInv, OneAttemptPerJob, Bound
  <1>18. (\A k \in Jobs : SealFits(k))'
    BY <1>3, <1>9, <1>12, SealStays
  <1>19. (\A q \in Requests : RequestFits(q))' /\ OneHolder'
    BY <1>3, <1>9, <1>10, <1>11, <1>12, RequestsEnd DEF MovesOn
  <1>20. LifecycleStep
    <2>1. BoundsStay
      BY <1>3 DEF BoundsStay, Bound
    <2>2. \A d \in Cases \ {c} : case'[d].status = case[d].status /\ WaitsOn(d)
      BY <1>6 DEF WaitsOn
    <2>3. \A d \in Cases : case'[d].proof = case[d].proof
      BY <1>6
    <2>4. CASE req[r].command = "finding_confirmed"
      <3>1. case[c].status \in {"pending_triage"} /\ case'[c].status = "open"
        BY <1>1, <1>2, <1>6, <2>4
      <3>2. Lifecycle!Move({"pending_triage"}, "open")
        BY <1>9, <2>1, <2>2, <2>3, <3>1, Moved
      <3> QED BY <3>2 DEF LifecycleStep, Lifecycle!Next, Lifecycle!Confirm
    <2>5. CASE req[r].command = "finding_dismissed"
      <3>1. case[c].status \in {"pending_triage", "open"} /\ case'[c].status = "dismissed"
        BY <1>1, <1>2, <1>6, <2>5
      <3>2. Lifecycle!Move({"pending_triage", "open"}, "dismissed")
        BY <1>9, <2>1, <2>2, <2>3, <3>1, Moved
      <3> QED BY <3>2 DEF LifecycleStep, Lifecycle!Next, Lifecycle!Dismiss
    <2>6. CASE req[r].command = "remediation_started"
      <3>1. case[c].status \in {"open"} /\ case'[c].status = "remediation_in_progress"
        BY <1>1, <1>2, <1>6, <2>6
      <3>2. Lifecycle!Move({"open"}, "remediation_in_progress")
        BY <1>9, <2>1, <2>2, <2>3, <3>1, Moved
      <3> QED BY <3>2 DEF LifecycleStep, Lifecycle!Next, Lifecycle!Begin
    <2> QED BY <1>2, <2>4, <2>5, <2>6
  <1> QED BY <1>9, <1>13, <1>14, <1>15, <1>16, <1>17, <1>18, <1>19, <1>20 DEF RemediationInv

\* In a case that is worked on every attempt that has a job is decided.
LEMMA WorkedOn ==
  ASSUME RemediationInv, NEW c \in Cases, case[c].status = "remediation_in_progress",
         NEW n \in DOMAIN attempts[c]
  PROVE  IF case[c].active = n THEN attempts[c][n].job = NoJob
         ELSE /\ attempts[c][n].job \in Jobs /\ attempts[c][n].resolution # "pending"
              /\ status[attempts[c][n].job] \notin Waiting
  <1>1. CaseFits(c) /\ AttemptFits(c, n) /\ attempts[c][n] \in Attempt /\ n # 0
    BY AttemptTyped DEF RemediationInv, AttemptsFit
  <1> QED BY <1>1 DEF CaseFits, AttemptFits, Attempt

LEMMA AttemptWritten ==
  ASSUME RemediationInv, NEW r \in Requests, WriteAttempt(r), Commits(r)
  PROVE  RemediationInv' /\ LifecycleStep
  <1>1. PICK c \in Cases : c = req[r].case
    BY DEF WriteAttempt, RemediationInv, RequestFits, CommandFits
  <1>2. PICK last \in Nat : last = Len(attempts[c]) + 1 /\ last > 0
    BY <1>1, AttemptTyped, RemediationAssumption DEF RemediationInv
  <1>3. /\ Exists(c) /\ Loaded(r).version = case[c].version
        /\ status[Source[c]] = "approved"
        /\ case[c].status = "remediation_in_progress"
        /\ case[c].active = 0 /\ Len(attempts[c]) < MaxAttempts
        /\ req[r].key \in Keys /\ req[r].command = "remediation_attempt_created"
    <2>1. At(r, "checked") /\ Wins(r) /\ CommandFits(r)
      BY DEF WriteAttempt, Commits, RemediationInv, RequestFits
    <2> QED BY <1>1, <2>1, Winner DEF CommandFits, WriteAttempt
  <1>4. UNCHANGED <<status, runs, result, seal>> /\ Finish(r)
    BY DEF WriteAttempt
  <1>5. CaseFits(c) /\ case[c] \in FindingCase /\ Source[c] \in Jobs
    BY <1>3, RemediationAssumption DEF RemediationInv, Typed
  <1>6. /\ case' = [case EXCEPT ![c].active = last, ![c].version = case[c].version + 1]
        /\ attempts' = [attempts EXCEPT ![c] = Append(@, NewAttempt)]
        /\ commands' = commands \cup {CommandRow(r)}
        /\ CountChange({c})
    BY <1>1, <1>2, <1>3 DEF WriteAttempt
  <1>7. /\ case'[c].status = "remediation_in_progress"
        /\ case'[c].version = case[c].version + 1
        /\ case'[c].active = last /\ case'[c].proof = case[c].proof
        /\ case'[c].result = case[c].result
        /\ \A d \in Cases \ {c} : case'[d] = case[d]
    BY <1>3, <1>5, <1>6 DEF RemediationInv, Typed, FindingCase
  <1>8. /\ changes'[c] = changes[c] + 1
        /\ \A d \in Cases \ {c} : changes'[d] = changes[d]
    BY <1>3, <1>6 DEF CountChange
  <1>9. NewAttempt \in Attempt /\ NewAttempt.job = NoJob
        /\ NewAttempt.resolution = "pending" /\ NewAttempt.proof = NoJob
    BY DEF NewAttempt, Attempt, Resolutions
  <1>10. /\ attempts[c] \in Seq(Attempt) /\ DOMAIN attempts[c] = 1..Len(attempts[c])
         /\ Len(attempts[c]) \in Nat
         /\ last <= MaxAttempts /\ last \in 0..MaxAttempts
    BY <1>2, <1>3, AttemptTyped, RemediationAssumption DEF RemediationInv
  <1>11. /\ attempts' \in [Cases -> Seq(Attempt)]
         /\ \A d \in Cases \ {c} : attempts'[d] = attempts[d]
         /\ Len(attempts'[c]) = last /\ DOMAIN attempts'[c] = 1..last
         /\ \A n \in DOMAIN attempts[c] : attempts'[c][n] = attempts[c][n]
         /\ attempts'[c][last] = NewAttempt
    BY <1>2, <1>3, <1>6, <1>9, <1>10 DEF RemediationInv, Typed
  <1>12. \A n \in DOMAIN attempts[c] :
           /\ attempts[c][n].job \in Jobs /\ attempts[c][n].resolution # "pending"
           /\ status[attempts[c][n].job] \notin Waiting
    BY <1>2, <1>3, <1>10, WorkedOn
  <1>13. Typed'
    <2>1. case' \in [Cases -> FindingCase]
      <3>0. PICK v \in Nat : v = case[c].version + 1
        BY <1>5 DEF FindingCase
      <3> DEFINE row == [case[c] EXCEPT !.active = last, !.version = v]
      <3>1. row \in FindingCase
        BY <1>5, <1>10, RemediationAssumption DEF FindingCase
      <3>2. case' = [case EXCEPT ![c] = row]
        BY <1>6, <3>0
      <3> HIDE DEF row
      <3> QED BY <3>1, <3>2 DEF RemediationInv, Typed
    <2>2. CommandRow(r) \in [key : Keys, case : Cases, command : Commands, version : Nat]
      BY <1>1, <1>3, <1>5 DEF CommandRow, FindingCase, Commands
    <2>3. changes' \in [Cases -> Nat]
      BY <1>6 DEF RemediationInv, Typed, CountChange
    <2>4. req' \in [Requests -> Request]
      BY <1>4, IdleIsTyped DEF Finish, RemediationInv, Typed
    <2>5. \A d \in Cases : Len(attempts'[d]) <= MaxAttempts
      BY <1>10, <1>11, RemediationAssumption DEF RemediationInv, Typed
    <2> QED BY <1>4, <1>6, <1>11, <2>1, <2>2, <2>3, <2>4, <2>5 DEF RemediationInv, Typed
  <1>14. JobsMoveOn
    BY <1>4 DEF JobsMoveOn
  <1>15. CasesMoveOn
    BY <1>3, <1>4, <1>5, <1>7, <1>11 DEF CasesMoveOn, Exists, FindingCase
  <1>16. BindingsStay
    <2> SUFFICES ASSUME NEW j \in Jobs, status[j] # "absent", NEW d \in Cases, NEW n
                 PROVE  /\ n \in DOMAIN attempts'[d] /\ attempts'[d][n].job = j
                             <=> Bound(d, n, j)
                        /\ Bound(d, n, j) /\ status[j] \in {"needs_review", "sealing"} =>
                             case'[d] = case[d] /\ attempts'[d][n] = attempts[d][n]
      BY DEF BindingsStay
    <2>1. CASE d = c
      BY <1>2, <1>9, <1>10, <1>11, <1>12, <2>1, RemediationAssumption DEF Bound, Waiting
    <2>2. CASE d # c
      BY <1>7, <1>11, <2>2 DEF Bound
    <2> QED BY <2>1, <2>2
  <1>17. (\A d \in Cases : CaseFits(d))'
    <2>1. CaseFits(c)'
      <3>1. status'[Source[c]] \in Reviewed /\ IsFaithful(c)'
        BY <1>3, <1>4, <1>5, <1>7 DEF CaseFits, IsFaithful
      <3>2. case[c].version \in Nat /\ case[c].version >= 2 /\ case[c].proof = NoJob
        BY <1>3, <1>5 DEF CaseFits, Remediated, FindingCase
      <3> QED BY <1>2, <1>3, <1>4, <1>7, <1>9, <1>10, <1>11, <3>1, <3>2
            DEF CaseFits, Exists, Remediated
    <2> QED BY <1>7, <1>8, <1>11, <1>14, <2>1, CaseRowStays
  <1>18. ReviewedSourceIsDecided'
    BY <1>3, <1>4, <1>7 DEF RemediationInv, ReviewedSourceIsDecided, Exists
  <1>19. LiveVersionNamesOneChange'
    BY <1>3, <1>7, <1>8 DEF RemediationInv, LiveVersionNamesOneChange
  <1>20. AttemptsFit'
    <2> SUFFICES ASSUME NEW d \in Cases, NEW n \in DOMAIN attempts'[d]
                 PROVE  AttemptFits(d, n)'
      BY DEF AttemptsFit
    <2>1. CASE d # c
      BY <1>4, <1>7, <1>11, <2>1, AttemptRowStays
    <2>2. CASE d = c /\ n = last
      BY <1>7, <1>9, <1>11, <2>2 DEF AttemptFits
    <2>3. CASE d = c /\ n # last
      <3>1. n \in DOMAIN attempts[c] /\ attempts'[c][n] = attempts[c][n]
        BY <1>2, <1>10, <1>11, <2>3
      <3>2. AttemptFits(c, n)
        BY <1>3, <3>1 DEF RemediationInv, AttemptsFit
      <3> QED BY <1>3, <1>4, <1>7, <1>12, <2>3, <3>1, <3>2, RemediationAssumption
            DEF AttemptFits
    <2> QED BY <2>1, <2>2, <2>3
  <1>21. OneAttemptPerJob'
    <2>1. ASSUME NEW j \in Jobs, status[j] = "absent", NEW d \in Cases, NEW n
          PROVE  ~Bound(d, n, j)'
      <3>1. CASE d = c
        BY <1>2, <1>9, <1>10, <1>11, <1>12, <2>1, <3>1, NewJobsAreFree,
           RemediationAssumption DEF Bound
      <3>2. CASE d # c
        BY <1>11, <2>1, <3>2, NewJobsAreFree DEF Bound
      <3> QED BY <3>1, <3>2
    <2> QED BY <1>16, <2>1, OneAttemptStays
  <1>22. (\A k \in Jobs : SealFits(k))'
    BY <1>4, <1>13, <1>16, SealStays
  <1>23. (\A q \in Requests : RequestFits(q))' /\ OneHolder'
    BY <1>4, <1>13, <1>14, <1>15, <1>16, RequestsEnd DEF MovesOn
  <1>24. LifecycleStep
    <2>1. BoundsStay
      <3> SUFFICES ASSUME NEW d \in Cases, NEW j \in Jobs, NEW n
                   PROVE  n \in DOMAIN attempts'[d] /\ attempts'[d][n].job = j
                            <=> Bound(d, n, j)
        BY DEF BoundsStay
      <3>1. CASE d = c
        <4>1. CASE n = last
          BY <1>2, <1>9, <1>10, <1>11, <3>1, <4>1, RemediationAssumption DEF Bound
        <4>2. CASE n # last
          <5>1. n \in DOMAIN attempts'[c] <=> n \in DOMAIN attempts[c]
            BY <1>2, <1>10, <1>11, <4>2
          <5> QED BY <1>11, <3>1, <5>1 DEF Bound
        <4> QED BY <4>1, <4>2
      <3>2. CASE d # c
        BY <1>11, <3>2 DEF Bound
      <3> QED BY <3>1, <3>2
    <2>2. \A d \in Cases : /\ case'[d].status = case[d].status
                           /\ case'[d].proof = case[d].proof
                           /\ WaitsOn(d)
      BY <1>3, <1>7 DEF WaitsOn
    <2> QED BY <1>13, <2>1, <2>2, Unseen
  <1> QED BY <1>13, <1>17, <1>18, <1>19, <1>20, <1>21, <1>22, <1>23, <1>24 DEF RemediationInv

LEMMA BindingWritten ==
  ASSUME RemediationInv, NEW r \in Requests, NEW j \in Jobs, WriteBinding(r, j), Binds(r)
  PROVE  RemediationInv' /\ LifecycleStep
  <1>1. PICK c \in Cases : c = req[r].case
    BY DEF WriteBinding, RemediationInv, RequestFits, CommandFits
  <1>2. PICK a : a = case[c].active
    OBVIOUS
  <1>3. /\ Exists(c) /\ Loaded(r).version = case[c].version /\ Loaded(r).active = a
        /\ status[Source[c]] = "approved"
        /\ case[c].status = "remediation_in_progress"
        /\ a \in DOMAIN attempts[c]
    <2>1. At(r, "checked") /\ Wins(r) /\ Loaded(r).active = a /\ req[r].command = "bind"
      BY <1>1, <1>2 DEF WriteBinding, Binds, Wins, RemediationInv, RequestFits
    <2> QED BY <1>1, <1>2, <2>1, Winner
  <1>4. CaseFits(c) /\ case[c] \in FindingCase /\ Source[c] \in Jobs
    BY RemediationAssumption DEF RemediationInv, Typed
  <1>5. /\ UNCHANGED <<runs, result, commands, seal>> /\ Finish(r)
        /\ status[j] = "absent"
        /\ status' = [status EXCEPT ![j] = "queued"]
        /\ attempts' = [attempts EXCEPT ![c][a].job = j]
        /\ case' = [case EXCEPT ![c].status = "verification_pending",
                                ![c].version = case[c].version + 1]
        /\ CountChange({c})
    BY <1>1, <1>3 DEF WriteBinding
  <1>6. /\ status'[j] = "queued" /\ \A k \in Jobs \ {j} : status'[k] = status[k]
        /\ Source[c] # j
    BY <1>3, <1>5 DEF RemediationInv, Typed
  <1>7. /\ case'[c].status = "verification_pending"
        /\ case'[c].version = case[c].version + 1
        /\ case'[c].active = a /\ case'[c].proof = case[c].proof
        /\ case'[c].result = case[c].result
        /\ \A d \in Cases \ {c} : case'[d] = case[d]
    BY <1>2, <1>4, <1>5 DEF RemediationInv, Typed, FindingCase
  <1>8. /\ changes'[c] = changes[c] + 1
        /\ \A d \in Cases \ {c} : changes'[d] = changes[d]
    BY <1>5 DEF CountChange
  <1>9. /\ attempts[c] \in Seq(Attempt) /\ DOMAIN attempts[c] = 1..Len(attempts[c])
        /\ \A n \in DOMAIN attempts[c] : attempts[c][n] \in Attempt
    BY AttemptTyped DEF RemediationInv
  <1>10. /\ attempts[c][a].job = NoJob /\ attempts[c][a].resolution = "pending"
         /\ attempts[c][a].proof = NoJob
         /\ \A n \in DOMAIN attempts[c] \ {a} :
              /\ attempts[c][n].job \in Jobs /\ attempts[c][n].resolution # "pending"
              /\ status[attempts[c][n].job] \notin Waiting
    <2>1. attempts[c][a].job = NoJob
      BY <1>2, <1>3, WorkedOn
    <2>2. attempts[c][a].resolution = "pending" /\ attempts[c][a].proof = NoJob
      BY <1>3, <2>1 DEF RemediationInv, AttemptsFit, AttemptFits
    <2> QED BY <1>2, <1>3, <2>1, <2>2, WorkedOn
  <1>11. PICK try \in Attempt : try = [attempts[c][a] EXCEPT !.job = j]
    BY <1>3, <1>9 DEF Attempt
  <1>12. try.job = j /\ try.resolution = "pending" /\ try.proof = NoJob
    BY <1>3, <1>9, <1>10, <1>11 DEF Attempt
  <1>13. /\ attempts' \in [Cases -> Seq(Attempt)]
         /\ \A d \in Cases \ {c} : attempts'[d] = attempts[d]
         /\ DOMAIN attempts'[c] = DOMAIN attempts[c] /\ Len(attempts'[c]) = Len(attempts[c])
         /\ \A n \in DOMAIN attempts[c] : n # a => attempts'[c][n] = attempts[c][n]
         /\ attempts'[c][a] = try
    <2>1. attempts' = [attempts EXCEPT ![c] = [attempts[c] EXCEPT ![a] = try]]
      BY <1>5, <1>11
    <2>2. [attempts[c] EXCEPT ![a] = try] \in Seq(Attempt)
      BY <1>3, <1>9
    <2> QED BY <1>3, <1>9, <2>1, <2>2 DEF RemediationInv, Typed
  <1>14. Typed'
    <2>1. case' \in [Cases -> FindingCase]
      <3>1. PICK v \in Nat : v = case[c].version + 1
        BY <1>4 DEF FindingCase
      <3>2. PICK row \in FindingCase :
               row = [case[c] EXCEPT !.status = "verification_pending", !.version = v]
        BY <1>4 DEF FindingCase, CASE_STATUSES
      <3>3. case' = [case EXCEPT ![c] = row]
        BY <1>5, <3>1, <3>2
      <3> QED BY <3>3 DEF RemediationInv, Typed
    <2>2. changes' \in [Cases -> Nat]
      BY <1>5 DEF RemediationInv, Typed, CountChange
    <2>3. req' \in [Requests -> Request]
      BY <1>5, IdleIsTyped DEF Finish, RemediationInv, Typed
    <2>4. \A d \in Cases : Len(attempts'[d]) <= MaxAttempts
      BY <1>13 DEF RemediationInv, Typed
    <2>5. status' \in [Jobs -> JobStates]
      BY <1>5 DEF RemediationInv, Typed, JobStates
    <2> QED BY <1>5, <1>13, <2>1, <2>2, <2>3, <2>4, <2>5 DEF RemediationInv, Typed
  <1>15. JobsMoveOn
    BY <1>5, <1>6 DEF JobsMoveOn, Reviewed
  <1>16. CasesMoveOn
    BY <1>3, <1>4, <1>7, <1>13 DEF CasesMoveOn, Exists, FindingCase
  <1>17. BindingsStay
    <2> SUFFICES ASSUME NEW k \in Jobs, status[k] # "absent", NEW d \in Cases, NEW n
                 PROVE  /\ n \in DOMAIN attempts'[d] /\ attempts'[d][n].job = k
                             <=> Bound(d, n, k)
                        /\ Bound(d, n, k) /\ status[k] \in {"needs_review", "sealing"} =>
                             case'[d] = case[d] /\ attempts'[d][n] = attempts[d][n]
      BY DEF BindingsStay
    <2>1. k # j
      BY <1>5
    <2>2. CASE d = c /\ n = a
      BY <1>3, <1>10, <1>12, <1>13, <2>1, <2>2, RemediationAssumption DEF Bound
    <2>3. CASE d = c /\ n # a
      BY <1>10, <1>13, <2>3 DEF Bound, Waiting
    <2>4. CASE d # c
      BY <1>7, <1>13, <2>4 DEF Bound
    <2> QED BY <2>2, <2>3, <2>4
  <1>18. (\A d \in Cases : CaseFits(d))'
    <2>1. CaseFits(c)'
      <3>1. status'[Source[c]] = "approved" /\ status'[Source[c]] \in Reviewed /\ IsFaithful(c)'
        BY <1>3, <1>4, <1>5, <1>6, <1>7 DEF CaseFits, IsFaithful, Reviewed
      <3>2. case[c].version \in Nat /\ case[c].version >= 2 /\ case[c].proof = NoJob /\ a # 0
        BY <1>3, <1>4, <1>9 DEF CaseFits, Remediated, FindingCase
      <3> QED BY <1>3, <1>7, <1>12, <1>13, <3>1, <3>2, RemediationAssumption
            DEF CaseFits, Exists, Remediated
    <2> QED BY <1>7, <1>8, <1>13, <1>15, <2>1, CaseRowStays
  <1>19. ReviewedSourceIsDecided'
    <2> SUFFICES ASSUME NEW d \in Cases, Exists(d)'
                 PROVE  /\ status'[Source[d]] \in {"sealing", "approved"} =>
                             d \in Demo \/ case'[d].status # "pending_triage"
                        /\ status'[Source[d]] = "rejected" => case'[d].status = "dismissed"
      BY DEF ReviewedSourceIsDecided
    <2>1. CASE d = c
      BY <1>3, <1>4, <1>6, <1>7, <2>1
    <2>2. CASE d # c
      <3>1. case'[d] = case[d] /\ Source[d] \in Jobs
        BY <1>7, <2>2, RemediationAssumption
      <3> QED BY <1>6, <3>1 DEF RemediationInv, ReviewedSourceIsDecided, Exists
    <2> QED BY <2>1, <2>2
  <1>20. LiveVersionNamesOneChange'
    BY <1>3, <1>7, <1>8 DEF RemediationInv, LiveVersionNamesOneChange
  <1>21. AttemptsFit'
    <2> SUFFICES ASSUME NEW d \in Cases, NEW n \in DOMAIN attempts'[d]
                 PROVE  AttemptFits(d, n)'
      BY DEF AttemptsFit
    <2>1. CASE d # c
      <3>1. n \in DOMAIN attempts[d] /\ attempts'[d] = attempts[d] /\ case'[d] = case[d]
        BY <1>7, <1>13, <2>1
      <3>2. attempts[d][n].job = NoJob \/ attempts[d][n].job \in Jobs \ {j}
        BY <1>5, <3>1, AttemptTyped, NewJobsAreFree DEF RemediationInv, Attempt, Bound
      <3> QED BY <1>6, <3>1, <3>2, AttemptRowStays
    <2>2. CASE d = c /\ n = a
      BY <1>6, <1>7, <1>12, <1>13, <2>2, RemediationAssumption DEF AttemptFits, Waiting
    <2>3. CASE d = c /\ n # a
      <3>1. n \in DOMAIN attempts[c] /\ attempts'[c][n] = attempts[c][n]
        BY <1>13, <2>3
      <3>2. AttemptFits(c, n) /\ attempts[c][n].job \in Jobs \ {j}
        BY <1>5, <1>10, <2>3, <3>1, NewJobsAreFree
        DEF RemediationInv, AttemptsFit, Bound
      <3> QED BY <1>6, <1>7, <1>10, <2>3, <3>1, <3>2, RemediationAssumption
            DEF AttemptFits
    <2> QED BY <2>1, <2>2, <2>3
  <1>22. OneAttemptPerJob'
    <2> SUFFICES ASSUME NEW d \in Cases, NEW e \in Cases, NEW n \in Nat, NEW m \in Nat,
                        NEW k \in Jobs, Bound(d, n, k)', Bound(e, m, k)'
                 PROVE  d = e /\ n = m
      BY DEF OneAttemptPerJob
    <2>1. CASE status[k] # "absent"
      BY <1>17, <2>1 DEF RemediationInv, OneAttemptPerJob, BindingsStay, Bound
    <2>2. CASE status[k] = "absent"
      <3>1. ASSUME NEW f \in Cases, NEW l, Bound(f, l, k)' PROVE f = c /\ l = a
        <4>1. ~Bound(f, l, k)
          BY <2>2, NewJobsAreFree
        <4> QED BY <1>13, <3>1, <4>1 DEF Bound
      <3> QED BY <3>1
    <2> QED BY <2>1, <2>2
  <1>23. (\A k \in Jobs : SealFits(k))'
    <2> SUFFICES ASSUME NEW k \in Jobs PROVE SealFits(k)'
      OBVIOUS
    <2>1. \/ status'[k] = status[k]
          \/ status[k] \notin {"sealing", "approved"} /\ status'[k] \notin {"sealing", "approved"}
      BY <1>5, <1>6
    <2> QED BY <1>5, <1>14, <1>17, <2>1, SealStays
  <1>24. (\A q \in Requests : RequestFits(q))' /\ OneHolder'
    <2>1. \A q \in Requests : Holds(q) => status'[req[q].job] = status[req[q].job]
      BY <1>5, <1>6, HeldIsUnderReview
    <2> QED BY <1>5, <1>14, <1>15, <1>16, <1>17, <2>1, RequestsEnd DEF MovesOn
  <1>25. LifecycleStep
    <2>1. usedJobs' = usedJobs \cup {j} /\ j \notin usedJobs
      <3>1. \A k \in Jobs : \A d \in Cases : \A n :
              n \in DOMAIN attempts'[d] /\ attempts'[d][n].job = k <=>
              Bound(d, n, k) \/ (d = c /\ n = a /\ k = j)
        <4> SUFFICES ASSUME NEW k \in Jobs, NEW d \in Cases, NEW n
                     PROVE  n \in DOMAIN attempts'[d] /\ attempts'[d][n].job = k <=>
                            Bound(d, n, k) \/ (d = c /\ n = a /\ k = j)
          OBVIOUS
        <4>1. CASE d = c /\ n = a
          BY <1>3, <1>10, <1>12, <1>13, <4>1, RemediationAssumption DEF Bound
        <4>2. CASE d = c /\ n # a
          BY <1>13, <4>2 DEF Bound
        <4>3. CASE d # c
          BY <1>13, <4>3 DEF Bound
        <4> QED BY <4>1, <4>2, <4>3
      <3>2. \A k \in Jobs : \A d \in Cases : \A n :
              /\ <<d, n>> \in AttemptsOf(k) <=> Bound(d, n, k)
              /\ <<d, n>> \in AttemptsOf(k)' <=>
                   n \in DOMAIN attempts'[d] /\ attempts'[d][n].job = k
        BY <1>14, AttemptRows, AttemptRowsNext DEF RemediationInv
      <3>3. \A k \in Jobs : /\ AttemptsOf(k) \subseteq Cases \X (1..MaxAttempts)
                            /\ AttemptsOf(k)' \subseteq Cases \X (1..MaxAttempts)
        BY DEF AttemptsOf
      <3>4. ASSUME NEW k \in Jobs \ {j} PROVE AttemptsOf(k)' # {} <=> AttemptsOf(k) # {}
        <4>1. \A d \in Cases : \A n : <<d, n>> \in AttemptsOf(k)' <=> <<d, n>> \in AttemptsOf(k)
          <5> SUFFICES ASSUME NEW d \in Cases, NEW n
                       PROVE  <<d, n>> \in AttemptsOf(k)' <=> <<d, n>> \in AttemptsOf(k)
            OBVIOUS
          <5> QED BY <3>1, <3>2
        <4> QED BY <3>3, <4>1
      <3>5. <<c, a>> \in AttemptsOf(j)'
        BY <3>1, <3>2
      <3>6. AttemptsOf(j) = {}
        BY <1>5, <3>2, <3>3, NewJobsAreFree
      <3> QED BY <3>4, <3>5, <3>6 DEF usedJobs
    <2>2. verifiers' = [verifiers EXCEPT ![c] = j]
      BY <1>7, <1>12, <1>13 DEF verifiers
    <2>3. stages' = [stages EXCEPT ![c] = "verification_pending"]
          /\ stages[c] = "remediation_in_progress"
      BY <1>3, <1>7 DEF stages
    <2>4. closures' = closures
      BY <1>7 DEF closures
    <2>5. Lifecycle!Verify(c, j)
      BY <2>1, <2>2, <2>3, <2>4
      DEF Lifecycle!Verify, stages, verifiers, usedJobs, closures
    <2> QED BY <2>5 DEF LifecycleStep, Lifecycle!Next
  <1> QED BY <1>14, <1>18, <1>19, <1>20, <1>21, <1>22, <1>23, <1>24, <1>25
        DEF RemediationInv

-----------------------------------------------------------------------------
(* Steps that decide the attempt a job verifies.                           *)

\* The case of an attempt that waits, and its other attempts.
LEMMA WaitingCase ==
  ASSUME RemediationInv, NEW j \in Jobs, status[j] \in Waiting,
         NEW c \in Cases, NEW n, Bound(c, n, j)
  PROVE  /\ case[c].status = "verification_pending" /\ case[c].active = n
         /\ Exists(c) /\ status[Source[c]] = "approved" /\ n \in Nat \ {0}
         /\ case[c].version \in Nat /\ case[c].version >= 2 /\ case[c].proof = NoJob
         /\ attempts[c][n] \in Attempt /\ attempts[c][n].proof = NoJob
         /\ attempts[c][n].resolution = "pending" <=> status[j] # "sealing"
         /\ \A m \in DOMAIN attempts[c] \ {n} :
              /\ attempts[c][m].job \in Jobs \ {j} /\ attempts[c][m].resolution # "pending"
              /\ status[attempts[c][m].job] \notin Waiting
  <1>1. CaseFits(c) /\ case[c] \in FindingCase
    BY DEF RemediationInv, Typed
  <1>2. /\ n \in DOMAIN attempts[c] /\ attempts[c][n].job = j /\ j # NoJob
        /\ DOMAIN attempts[c] = 1..Len(attempts[c])
        /\ \A m \in DOMAIN attempts[c] : AttemptFits(c, m) /\ attempts[c][m] \in Attempt
    BY AttemptTyped, RemediationAssumption DEF RemediationInv, AttemptsFit, Bound
  <1>3. /\ case[c].status = "verification_pending" /\ case[c].active = n
        /\ attempts[c][n].proof = NoJob
        /\ attempts[c][n].resolution = "pending" <=> status[j] # "sealing"
    BY <1>2 DEF AttemptFits
  <1>4. /\ Exists(c) /\ status[Source[c]] = "approved"
        /\ case[c].version \in Nat /\ case[c].version >= 2 /\ case[c].proof = NoJob
    BY <1>1, <1>3 DEF CaseFits, Exists, Remediated, FindingCase
  <1>5. ASSUME NEW m \in DOMAIN attempts[c] \ {n}
        PROVE  /\ attempts[c][m].job \in Jobs \ {j} /\ attempts[c][m].resolution # "pending"
               /\ status[attempts[c][m].job] \notin Waiting
    BY <1>2, <1>3, <1>5 DEF AttemptFits, Attempt
  <1> QED BY <1>2, <1>3, <1>4, <1>5

\* Attempts are decided in place.
LEMMA InPlace ==
  ASSUME Typed,
         attempts' = [c \in Cases |-> [n \in DOMAIN attempts[c] |-> attempts'[c][n]]],
         \A c \in Cases : \A n \in DOMAIN attempts[c] : attempts'[c][n] \in Attempt
  PROVE  /\ attempts' \in [Cases -> Seq(Attempt)]
         /\ \A c \in Cases : /\ DOMAIN attempts'[c] = DOMAIN attempts[c]
                             /\ Len(attempts'[c]) = Len(attempts[c])
         /\ \A c \in Cases : (\A n \in DOMAIN attempts[c] : attempts'[c][n] = attempts[c][n])
                             => attempts'[c] = attempts[c]
  <1>1. ASSUME NEW c \in Cases
        PROVE  /\ attempts'[c] \in Seq(Attempt)
               /\ DOMAIN attempts'[c] = DOMAIN attempts[c]
               /\ Len(attempts'[c]) = Len(attempts[c])
               /\ (\A n \in DOMAIN attempts[c] : attempts'[c][n] = attempts[c][n])
                    => attempts'[c] = attempts[c]
    <2>1. DOMAIN attempts[c] = 1..Len(attempts[c]) /\ Len(attempts[c]) \in Nat
      BY AttemptTyped
    <2>2. attempts'[c] = [n \in DOMAIN attempts[c] |-> attempts'[c][n]]
      OBVIOUS
    <2>3. DOMAIN attempts'[c] = DOMAIN attempts[c]
      BY <2>2
    <2>4. attempts'[c] \in [1..Len(attempts[c]) -> Attempt]
      BY <2>1, <2>2
    <2>5. attempts'[c] \in Seq(Attempt)
      BY <2>1, <2>4
    <2>6. Len(attempts'[c]) = Len(attempts[c])
      BY <2>1, <2>3, <2>5
    <2>7. attempts[c] \in Seq(Attempt)
      BY AttemptTyped
    <2>8. ASSUME \A n \in DOMAIN attempts[c] : attempts'[c][n] = attempts[c][n]
          PROVE  attempts'[c] = attempts[c]
      BY <2>1, <2>5, <2>6, <2>7, <2>8
    <2> QED BY <2>3, <2>5, <2>6, <2>8
  <1>2. attempts' \in [Cases -> Seq(Attempt)]
    <2>1. DOMAIN attempts' = Cases
      OBVIOUS
    <2> QED BY <1>1, <2>1
  <1> QED BY <1>1, <1>2

\* What the three steps below share: job j leaves Waiting, or is going to be
\* sealed, and with it the attempt that it verifies.
Decides(j) ==
  /\ \A k \in Jobs \ {j} : status'[k] = status[k] /\ seal'[k] = seal[k]
  /\ UNCHANGED <<runs, result>>
  /\ \A c \in Cases : \A n \in DOMAIN attempts[c] :
       /\ attempts'[c][n].job = attempts[c][n].job
       /\ attempts[c][n].job # j => attempts'[c][n] = attempts[c][n]
  /\ \A c \in Cases : /\ DOMAIN attempts'[c] = DOMAIN attempts[c]
                      /\ Len(attempts'[c]) = Len(attempts[c])

LEMMA DecidedBindings ==
  ASSUME RemediationInv, NEW j \in Jobs, Decides(j), status'[j] # status[j],
         \A c \in Cases : case[c].status = "verification_pending" /\ case'[c] # case[c] =>
           Bound(c, case[c].active, j)
  PROVE  BindingsStay /\ OneAttemptPerJob'
  <1>1. BindingsStay
    <2> SUFFICES ASSUME NEW k \in Jobs, status[k] # "absent", NEW c \in Cases, NEW n
                 PROVE  /\ n \in DOMAIN attempts'[c] /\ attempts'[c][n].job = k
                             <=> Bound(c, n, k)
                        /\ status'[k] = status[k] /\ Bound(c, n, k)
                             /\ status[k] \in {"needs_review", "sealing"} =>
                             case'[c] = case[c] /\ attempts'[c][n] = attempts[c][n]
      BY DEF BindingsStay
    <2>1. n \in DOMAIN attempts'[c] /\ attempts'[c][n].job = k <=> Bound(c, n, k)
      BY DEF Decides, Bound
    <2>2. ASSUME status'[k] = status[k], Bound(c, n, k),
                 status[k] \in {"needs_review", "sealing"}
          PROVE  case'[c] = case[c] /\ attempts'[c][n] = attempts[c][n]
      <3>1. case[c].status = "verification_pending" /\ case[c].active = n /\ k # j
        BY <2>2, WaitingCase DEF Waiting
      <3>2. attempts'[c][n] = attempts[c][n]
        BY <2>2, <3>1 DEF Decides, Bound
      <3>3. ~Bound(c, n, j)
        BY <2>2, <3>1 DEF Bound
      <3> QED BY <3>1, <3>2, <3>3
    <2> QED BY <2>1, <2>2
  <1>2. OneAttemptPerJob'
    BY DEF RemediationInv, OneAttemptPerJob, Decides, Bound
  <1> QED BY <1>1, <1>2

LEMMA Resolving ==
  ASSUME RemediationInv, NEW j \in Jobs, NEW resolution \in Resolutions,
         Resolve(j, resolution)
  PROVE  /\ attempts' \in [Cases -> Seq(Attempt)]
         /\ \A c \in Cases :
              /\ DOMAIN attempts'[c] = DOMAIN attempts[c]
              /\ Len(attempts'[c]) = Len(attempts[c])
              /\ (\A n : ~Bound(c, n, j)) => attempts'[c] = attempts[c]
              /\ \A n \in DOMAIN attempts[c] :
                   /\ attempts'[c][n].job = attempts[c][n].job
                   /\ attempts'[c][n].proof = attempts[c][n].proof
                   /\ attempts[c][n].job # j => attempts'[c][n] = attempts[c][n]
                   /\ attempts[c][n].job = j => attempts'[c][n].resolution = resolution
  <1>1. ASSUME NEW c \in Cases, NEW n \in DOMAIN attempts[c]
        PROVE  /\ attempts'[c][n] \in Attempt
               /\ attempts'[c][n].job = attempts[c][n].job
               /\ attempts'[c][n].proof = attempts[c][n].proof
               /\ attempts[c][n].job # j => attempts'[c][n] = attempts[c][n]
               /\ attempts[c][n].job = j => attempts'[c][n].resolution = resolution
    <2>1. attempts'[c][n] = IF <<c, n>> \in AttemptsOf(j)
                            THEN [attempts[c][n] EXCEPT !.resolution = resolution]
                            ELSE attempts[c][n]
      BY DEF Resolve
    <2>2. <<c, n>> \in AttemptsOf(j) <=> attempts[c][n].job = j
      BY AttemptRows DEF RemediationInv, Bound
    <2>3. attempts[c][n] \in Attempt
      BY AttemptTyped DEF RemediationInv
    <2> QED BY <2>1, <2>2, <2>3 DEF Attempt
  <1>2. attempts' = [c \in Cases |-> [n \in DOMAIN attempts[c] |-> attempts'[c][n]]]
    BY DEF Resolve
  <1>3. /\ attempts' \in [Cases -> Seq(Attempt)]
        /\ \A c \in Cases : /\ DOMAIN attempts'[c] = DOMAIN attempts[c]
                            /\ Len(attempts'[c]) = Len(attempts[c])
        /\ \A c \in Cases : (\A n \in DOMAIN attempts[c] : attempts'[c][n] = attempts[c][n])
                            => attempts'[c] = attempts[c]
    BY <1>1, <1>2, InPlace DEF RemediationInv
  <1> QED BY <1>1, <1>3 DEF Bound

LEMMA ApprovalCommitted ==
  ASSUME RemediationInv, NEW r \in Requests, CommitApproval(r)
  PROVE  RemediationInv' /\ LifecycleStep
  <1>1. PICK j \in Jobs : j = req[r].job
    BY HeldIsUnderReview DEF CommitApproval
  <1>2. PICK resolution \in Resolutions : resolution = req[r].resolution
    BY DEF RemediationInv, Typed, Request
  <1>3. /\ status[j] = "needs_review" /\ Holds(r)
        /\ Untriaged(j) = {}
        /\ AttemptsOf(j) = {} => resolution = "pending"
        /\ AttemptsOf(j) # {} => resolution # "pending"
    BY <1>1, <1>2, HeldIsUnderReview
    DEF CommitApproval, Holds, At, RemediationInv, RequestFits, ReviewFits
  <1>4. /\ UNCHANGED <<runs, result, case, commands, changes>> /\ Finish(r)
        /\ Resolve(j, resolution)
        /\ status' = [status EXCEPT ![j] = "sealing"]
        /\ seal' = [seal EXCEPT ![j] =
                      [state |-> "requested",
                       frozen |-> [Context(j) EXCEPT !.resolution = resolution]]]
    BY <1>1, <1>2 DEF CommitApproval
  <1>5. /\ status'[j] = "sealing" /\ \A k \in Jobs \ {j} : status'[k] = status[k]
        /\ seal'[j] = [state |-> "requested",
                       frozen |-> [Context(j) EXCEPT !.resolution = resolution]]
        /\ \A k \in Jobs \ {j} : seal'[k] = seal[k]
    BY <1>4 DEF RemediationInv, Typed
  <1>6. /\ attempts' \in [Cases -> Seq(Attempt)]
        /\ \A c \in Cases :
             /\ DOMAIN attempts'[c] = DOMAIN attempts[c]
             /\ Len(attempts'[c]) = Len(attempts[c])
             /\ (\A n : ~Bound(c, n, j)) => attempts'[c] = attempts[c]
             /\ \A n \in DOMAIN attempts[c] :
                  /\ attempts'[c][n].job = attempts[c][n].job
                  /\ attempts'[c][n].proof = attempts[c][n].proof
                  /\ attempts[c][n].job # j => attempts'[c][n] = attempts[c][n]
                  /\ attempts[c][n].job = j => attempts'[c][n].resolution = resolution
    BY <1>4, Resolving
  <1>7. Context(j) \in Snapshot /\ [Context(j) EXCEPT !.resolution = resolution] \in Snapshot
    <2>1. Context(j) \in Snapshot
      <3>1. CASE AttemptsOf(j) = {}
        BY <3>1, ContextIsTheRow, RemediationAssumption
        DEF RemediationInv, NoContext, Snapshot, Resolutions
      <3>2. CASE AttemptsOf(j) # {}
        <4>1. PICK c \in Cases, n \in 1..MaxAttempts : Bound(c, n, j)
          BY <3>2, AttemptRows DEF RemediationInv
        <4>2. Context(j) = [case |-> c, no |-> n, status |-> case[c].status,
                            version |-> case[c].version,
                            resolution |-> attempts[c][n].resolution]
          BY <4>1, ContextIsTheRow DEF RemediationInv
        <4>3. case[c] \in FindingCase /\ attempts[c][n] \in Attempt /\ n \in 0..MaxAttempts
          <5>1. n \in 1..Len(attempts[c]) /\ Len(attempts[c]) \in 0..MaxAttempts
                /\ attempts[c][n] \in Attempt
            BY <4>1, AttemptTyped DEF RemediationInv, Bound
          <5>2. n \in 0..MaxAttempts
            BY <5>1, RemediationAssumption
          <5> QED BY <5>1, <5>2 DEF RemediationInv, Typed
        <4> QED BY <4>2, <4>3 DEF FindingCase, Attempt, Snapshot
      <3> QED BY <3>1, <3>2
    <2> QED BY <2>1 DEF Snapshot
  <1>8. Typed'
    <2>1. req' \in [Requests -> Request]
      BY <1>4, IdleIsTyped DEF Finish, RemediationInv, Typed
    <2>2. seal' \in [Jobs -> [state : SealStates, frozen : Snapshot]]
      BY <1>4, <1>7 DEF RemediationInv, Typed, SealStates
    <2>3. status' \in [Jobs -> JobStates]
      BY <1>4 DEF RemediationInv, Typed, JobStates
    <2> QED BY <1>4, <1>6, <2>1, <2>2, <2>3 DEF RemediationInv, Typed
  <1>9. JobsMoveOn
    BY <1>3, <1>4, <1>5 DEF JobsMoveOn, Reviewed
  <1>10. CasesMoveOn
    BY <1>4, <1>6 DEF CasesMoveOn, Exists
  <1>11. Decides(j)
    BY <1>4, <1>5, <1>6 DEF Decides
  <1>12. BindingsStay /\ OneAttemptPerJob'
    BY <1>3, <1>4, <1>5, <1>11, DecidedBindings
  <1>13. (\A c \in Cases : CaseFits(c))'
    <2> SUFFICES ASSUME NEW c \in Cases PROVE CaseFits(c)'
      OBVIOUS
    <2>1. CASE \A n : ~Bound(c, n, j)
      BY <1>4, <1>6, <1>9, <2>1, CaseRowStays
    <2>2. ASSUME NEW n, Bound(c, n, j) PROVE CaseFits(c)'
      <3>1. /\ case[c].status = "verification_pending" /\ status[Source[c]] = "approved"
            /\ Exists(c) /\ Source[c] \in Jobs /\ CaseFits(c)
        BY <1>3, <2>2, WaitingCase, RemediationAssumption DEF RemediationInv, Waiting
      <3>2. /\ status'[Source[c]] = "approved" /\ IsFaithful(c)'
            /\ attempts'[c][case[c].active].job = attempts[c][case[c].active].job
        BY <1>3, <1>4, <1>5, <1>6, <3>1 DEF CaseFits, IsFaithful
      <3> QED BY <1>4, <1>6, <3>1, <3>2 DEF CaseFits, Exists, Reviewed
    <2> QED BY <2>1, <2>2
  <1>14. ReviewedSourceIsDecided'
    <2> SUFFICES ASSUME NEW c \in Cases, Exists(c)'
                 PROVE  /\ status'[Source[c]] \in {"sealing", "approved"} =>
                             c \in Demo \/ case'[c].status # "pending_triage"
                        /\ status'[Source[c]] = "rejected" => case'[c].status = "dismissed"
      BY DEF ReviewedSourceIsDecided
    <2>1. CASE Source[c] = j
      BY <1>3, <1>4, <1>5, <2>1 DEF Untriaged
    <2>2. CASE Source[c] # j
      BY <1>4, <1>5, <2>2, RemediationAssumption
      DEF RemediationInv, ReviewedSourceIsDecided, Exists
    <2> QED BY <2>1, <2>2
  <1>15. LiveVersionNamesOneChange'
    BY <1>4 DEF RemediationInv, LiveVersionNamesOneChange
  <1>16. AttemptsFit'
    <2> SUFFICES ASSUME NEW c \in Cases, NEW n \in DOMAIN attempts[c]
                 PROVE  AttemptFits(c, n)'
      BY <1>6 DEF AttemptsFit
    <2>1. attempts[c][n].job = NoJob \/ attempts[c][n].job \in Jobs
      BY AttemptTyped DEF RemediationInv, Attempt
    <2>2. CASE attempts[c][n].job # j
      BY <1>4, <1>5, <1>6, <2>1, <2>2, AttemptRowStays
    <2>3. CASE attempts[c][n].job = j
      <3>1. /\ case[c].status = "verification_pending" /\ case[c].active = n
            /\ attempts[c][n].proof = NoJob
        BY <1>3, <2>3, WaitingCase DEF Bound, Waiting
      <3>2. resolution # "pending"
        <4>1. <<c, n>> \in AttemptsOf(j)
          BY <2>3, AttemptRows DEF RemediationInv, Bound
        <4> QED BY <1>3, <4>1
      <3> QED BY <1>4, <1>5, <1>6, <2>3, <3>1, <3>2, RemediationAssumption
            DEF AttemptFits, Waiting
    <2> QED BY <2>2, <2>3
  <1>17. (\A k \in Jobs : SealFits(k))'
    <2>1. ASSUME NEW k \in Jobs \ {j} PROVE SealFits(k)'
      BY <1>5, <1>8, <1>12, SealStays
    <2>2. Context(j)' = [Context(j) EXCEPT !.resolution = resolution]
      <3>1. AttemptsOf(j)' = AttemptsOf(j)
        BY <1>3, <1>8, <1>12, AttemptsStay DEF RemediationInv
      <3>2. CASE AttemptsOf(j) = {}
        <4>1. Context(j) = NoContext /\ Context(j)' = NoContext /\ resolution = "pending"
          BY <1>3, <3>1, <3>2 DEF Context
        <4> QED BY <4>1 DEF NoContext
      <3>3. CASE AttemptsOf(j) # {}
        <4>1. PICK c \in Cases, n \in 1..MaxAttempts : Bound(c, n, j)
          BY <3>3, AttemptRows DEF RemediationInv
        <4>2. /\ AttemptsOf(j) = {<<c, n>>}
              /\ Context(j) = [case |-> c, no |-> n, status |-> case[c].status,
                               version |-> case[c].version,
                               resolution |-> attempts[c][n].resolution]
          BY <4>1, ContextIsTheRow DEF RemediationInv
        <4>3. AttemptsOf(j)' = {<<c, n>>}
          BY <3>1, <4>2
        <4>4. Context(j)' = [case |-> c, no |-> n, status |-> case'[c].status,
                             version |-> case'[c].version,
                             resolution |-> attempts'[c][n].resolution]
          <5>1. (CHOOSE a \in AttemptsOf(j)' : TRUE) = <<c, n>>
            BY <4>3
          <5> QED BY <4>3, <5>1 DEF Context
        <4>5. case'[c] = case[c] /\ attempts'[c][n].resolution = resolution
          BY <1>4, <1>6, <4>1 DEF Bound
        <4> QED BY <4>2, <4>4, <4>5
      <3> QED BY <3>2, <3>3
    <2>3. SealFits(j)'
      BY <1>5, <2>2 DEF SealFits
    <2> QED BY <2>1, <2>3
  <1>18. (\A q \in Requests : RequestFits(q))' /\ OneHolder'
    <2>1. \A q \in Requests \ {r} : Holds(q) => status'[req[q].job] = status[req[q].job]
      BY <1>1, <1>3, <1>5, HeldIsUnderReview DEF RemediationInv, OneHolder
    <2> QED BY <1>4, <1>8, <1>9, <1>10, <1>12, <2>1, RequestsEnd DEF MovesOn
  <1>19. LifecycleStep
    <2>1. BoundsStay
      BY <1>6 DEF BoundsStay, Bound
    <2> QED BY <1>4, <1>8, <2>1, Unseen DEF WaitsOn
  <1> QED BY <1>8, <1>12, <1>13, <1>14, <1>15, <1>16, <1>17, <1>18, <1>19 DEF RemediationInv

LEMMA RejectionCommitted ==
  ASSUME RemediationInv, NEW r \in Requests, CommitRejection(r)
  PROVE  RemediationInv' /\ LifecycleStep
  <1>1. PICK j \in Jobs : j = req[r].job
    BY HeldIsUnderReview DEF CommitRejection
  <1>2. /\ status[j] = "needs_review" /\ Holds(r) /\ HoldingFits(r)
        /\ req[r].command = "reject" /\ req[r] \in Request
    BY <1>1, HeldIsUnderReview
    DEF CommitRejection, Holds, At, RemediationInv, RequestFits, Typed
  <1>3. /\ UNCHANGED <<runs, result, commands, seal>> /\ Finish(r)
        /\ Resolve(j, "not_resolved")
        /\ status' = [status EXCEPT ![j] = "rejected"]
        /\ CountChange(Reopened(r) \cup Dismissed(r))
    BY <1>1 DEF CommitRejection
  <1>4. status'[j] = "rejected" /\ \A k \in Jobs \ {j} : status'[k] = status[k]
    BY <1>3 DEF RemediationInv, Typed
  <1>5. /\ attempts' \in [Cases -> Seq(Attempt)]
        /\ \A c \in Cases :
             /\ DOMAIN attempts'[c] = DOMAIN attempts[c]
             /\ Len(attempts'[c]) = Len(attempts[c])
             /\ (\A n : ~Bound(c, n, j)) => attempts'[c] = attempts[c]
             /\ \A n \in DOMAIN attempts[c] :
                  /\ attempts'[c][n].job = attempts[c][n].job
                  /\ attempts'[c][n].proof = attempts[c][n].proof
                  /\ attempts[c][n].job # j => attempts'[c][n] = attempts[c][n]
                  /\ attempts[c][n].job = j => attempts'[c][n].resolution = "not_resolved"
    BY <1>3, Resolving DEF Resolutions
  <1>6. ASSUME NEW c \in Cases PROVE c \in Reopened(r) <=> \E n : Bound(c, n, j)
    <2>1. ASSUME c \in Reopened(r) PROVE \E n : Bound(c, n, j)
      <3>1. PICK a \in AttemptsOf(j) : a[1] = c
        BY <1>1, <2>1 DEF Reopened
      <3> QED BY <3>1, AttemptRows DEF RemediationInv
    <2>2. ASSUME NEW n, Bound(c, n, j) PROVE c \in Reopened(r)
      <3>1. <<c, n>> \in AttemptsOf(j)
        BY <2>2, AttemptRows DEF RemediationInv
      <3> QED BY <1>1, <3>1 DEF Reopened
    <2> QED BY <2>1, <2>2
  <1>7. ASSUME NEW c \in Reopened(r)
        PROVE  /\ c \in Cases /\ case[c] \in FindingCase /\ CaseFits(c)
               /\ case[c].status = "verification_pending" /\ Exists(c)
               /\ case[c].version >= 2 /\ case[c].version \in Nat
               /\ status[Source[c]] = "approved" /\ Source[c] \in Jobs \ {j}
               /\ req[r].seen[c] = case[c]
               /\ Bound(c, case[c].active, j)
    <2>1. c \in Cases
      BY <1>7, AttemptRows DEF RemediationInv, Reopened
    <2>2. PICK n : Bound(c, n, j)
      BY <1>6, <2>1
    <2>3. /\ case[c].status = "verification_pending" /\ case[c].active = n
          /\ Exists(c) /\ status[Source[c]] = "approved"
          /\ case[c].version >= 2 /\ case[c].version \in Nat
      BY <1>2, <2>1, <2>2, WaitingCase DEF Waiting
    <2>4. req[r].seen[c] = case[c]
      BY <1>1, <1>2, <2>1, <2>2 DEF HoldingFits, Bound
    <2> QED BY <1>2, <2>1, <2>2, <2>3, <2>4, RemediationAssumption DEF RemediationInv, Typed
  <1>8. ASSUME NEW c \in Dismissed(r)
        PROVE  /\ c \in Cases /\ case[c] \in FindingCase /\ CaseFits(c)
               /\ Source[c] = j /\ Exists(c) /\ c \notin Reopened(r)
               /\ case[c].status \notin Remediated
               /\ case[c].active = 0 /\ attempts[c] = <<>> /\ case[c].proof = NoJob
               /\ req[r].seen[c].version \in Nat
    <2>1. c \in Cases /\ c \in DOMAIN req[r].seen /\ Source[c] = j
      BY <1>1, <1>2 DEF Dismissed, Request, Seen
    <2>2. Exists(c) /\ CaseFits(c) /\ case[c] \in FindingCase
      BY <1>2, <2>1 DEF HoldingFits, RemediationInv, Typed
    <2>3. case[c].status \notin Remediated
      BY <1>2, <2>1, <2>2 DEF CaseFits
    <2>4. case[c].active = 0 /\ attempts[c] = <<>> /\ case[c].proof = NoJob
      BY <2>2, <2>3 DEF CaseFits, FindingCase, CASE_STATUSES, Remediated
    <2>5. req[r].seen[c].version \in Nat
      BY <1>2, <2>1 DEF Request, Seen, FindingCase
    <2>6. c \notin Reopened(r)
      BY <1>7, <2>3 DEF Remediated
    <2> QED BY <2>1, <2>2, <2>3, <2>4, <2>5, <2>6
  <1>9. ASSUME NEW c \in Reopened(r)
        PROVE  /\ case'[c].status = "remediation_in_progress" /\ case'[c].active = 0
               /\ case'[c].version = case[c].version + 1
               /\ case'[c].result = case[c].result /\ case'[c].proof = case[c].proof
               /\ changes'[c] = changes[c] + 1 /\ case'[c] \in FindingCase
    <2>1. PICK v \in Nat : v = case[c].version + 1
      BY <1>7
    <2>2. case'[c] = [case[c] EXCEPT !.status = "remediation_in_progress", !.active = 0,
                                     !.version = v]
      BY <1>7, <2>1 DEF CommitRejection
    <2>3. 0 \in 0..MaxAttempts
      BY RemediationAssumption
    <2>4. changes'[c] = changes[c] + 1
      BY <1>3, <1>7 DEF CountChange
    <2> QED BY <1>7, <2>1, <2>2, <2>3, <2>4 DEF FindingCase, CASE_STATUSES
  <1>10. ASSUME NEW c \in Dismissed(r)
         PROVE  /\ case'[c].status = "dismissed" /\ case'[c].active = 0
                /\ case'[c].version \in Nat /\ case'[c].version >= 1
                /\ case'[c].result = case[c].result /\ case'[c].proof = NoJob
                /\ case'[c] \in FindingCase
    <2>1. PICK v \in Nat : v = req[r].seen[c].version + 1
      BY <1>8
    <2>2. case'[c] = [case[c] EXCEPT !.status = "dismissed", !.version = v]
      BY <1>8, <2>1 DEF CommitRejection
    <2>3. v >= 1
      BY <1>8, <2>1
    <2> QED BY <1>8, <2>2, <2>3 DEF FindingCase, CASE_STATUSES
  <1>11. ASSUME NEW c \in Cases, c \notin Reopened(r), c \notin Dismissed(r)
         PROVE  case'[c] = case[c] /\ attempts'[c] = attempts[c] /\ changes'[c] = changes[c]
    BY <1>3, <1>5, <1>6, <1>11 DEF CommitRejection, CountChange
  <1>12. Typed'
    <2>1. req' \in [Requests -> Request]
      BY <1>3, IdleIsTyped DEF Finish, RemediationInv, Typed
    <2>2. case' \in [Cases -> FindingCase]
      <3>1. \A c \in Cases : case'[c] \in FindingCase
        BY <1>9, <1>10, <1>11 DEF RemediationInv, Typed
      <3>2. DOMAIN case' = Cases /\ case' = [c \in Cases |-> case'[c]]
        BY DEF CommitRejection
      <3> QED BY <3>1, <3>2
    <2>3. status' \in [Jobs -> JobStates]
      BY <1>3 DEF RemediationInv, Typed, JobStates
    <2>4. changes' \in [Cases -> Nat]
      BY <1>3 DEF RemediationInv, Typed, CountChange
    <2> QED BY <1>3, <1>5, <2>1, <2>2, <2>3, <2>4 DEF RemediationInv, Typed
  <1>13. JobsMoveOn
    BY <1>2, <1>3, <1>4 DEF JobsMoveOn, Reviewed
  <1>14. CasesMoveOn
    <2> SUFFICES ASSUME NEW c \in Cases
                 PROVE  /\ Exists(c) => case'[c].status # "absent"
                        /\ ~Exists(c) /\ case'[c].status # "absent" =>
                             status[Source[c]] \notin Reviewed
                        /\ case'[c].status = "pending_triage" =>
                             ~Exists(c) \/ case[c].status = "pending_triage"
                        /\ case[c].status = "dismissed" => case'[c].status = "dismissed"
                        /\ status[Source[c]] = "approved" =>
                             \/ case'[c] = case[c] /\ Len(attempts'[c]) = Len(attempts[c])
                             \/ case'[c].version > case[c].version
      BY DEF CasesMoveOn
    <2>1. CASE c \in Reopened(r)
      BY <1>7, <1>9, <2>1
    <2>2. CASE c \in Dismissed(r)
      BY <1>2, <1>8, <1>10, <2>2
    <2>3. CASE c \notin Reopened(r) /\ c \notin Dismissed(r)
      BY <1>11, <2>3 DEF Exists
    <2> QED BY <2>1, <2>2, <2>3
  <1>15. Decides(j)
    BY <1>3, <1>4, <1>5 DEF Decides
  <1>16. BindingsStay /\ OneAttemptPerJob'
    <2>1. \A c \in Cases : case[c].status = "verification_pending" /\ case'[c] # case[c] =>
            Bound(c, case[c].active, j)
      BY <1>7, <1>8, <1>11 DEF Remediated
    <2> QED BY <1>2, <1>4, <1>15, <2>1, DecidedBindings
  <1>17. (\A c \in Cases : CaseFits(c))'
    <2> SUFFICES ASSUME NEW c \in Cases PROVE CaseFits(c)'
      OBVIOUS
    <2>1. CASE c \in Reopened(r)
      <3>1. /\ status'[Source[c]] = "approved" /\ IsFaithful(c)' /\ case[c].proof = NoJob
            /\ case'[c].version >= 2
        BY <1>3, <1>4, <1>7, <1>9, <2>1 DEF CaseFits, IsFaithful
      <3> QED BY <1>9, <2>1, <3>1 DEF CaseFits, Exists, Reviewed, Remediated
    <2>2. CASE c \in Dismissed(r)
      <3>1. /\ status'[Source[c]] = "rejected" /\ IsFaithful(c)'
            /\ attempts'[c] = attempts[c]
        BY <1>3, <1>4, <1>5, <1>6, <1>8, <1>10, <2>2 DEF CaseFits, IsFaithful
      <3> QED BY <1>8, <1>10, <2>2, <3>1 DEF CaseFits, Exists, Reviewed, Remediated
    <2>3. CASE c \notin Reopened(r) /\ c \notin Dismissed(r)
      BY <1>11, <1>13, <2>3, CaseRowStays
    <2> QED BY <2>1, <2>2, <2>3
  <1>18. ReviewedSourceIsDecided'
    <2> SUFFICES ASSUME NEW c \in Cases, Exists(c)'
                 PROVE  /\ status'[Source[c]] \in {"sealing", "approved"} =>
                             c \in Demo \/ case'[c].status # "pending_triage"
                        /\ status'[Source[c]] = "rejected" => case'[c].status = "dismissed"
      BY DEF ReviewedSourceIsDecided
    <2>1. CASE c \in Reopened(r)
      BY <1>4, <1>7, <1>9, <2>1
    <2>2. CASE c \in Dismissed(r)
      BY <1>10, <2>2
    <2>3. CASE c \notin Reopened(r) /\ c \notin Dismissed(r)
      <3>1. case'[c] = case[c] /\ Exists(c)
        BY <1>11, <2>3 DEF Exists
      <3>2. Source[c] = j => case[c].status = "dismissed"
        BY <1>1, <1>2, <2>3, <3>1 DEF HoldingFits, Dismissed
      <3>3. Source[c] # j => status'[Source[c]] = status[Source[c]]
        BY <1>4, RemediationAssumption
      <3> QED BY <1>4, <3>1, <3>2, <3>3 DEF RemediationInv, ReviewedSourceIsDecided
    <2> QED BY <2>1, <2>2, <2>3
  <1>19. LiveVersionNamesOneChange'
    <2> SUFFICES ASSUME NEW c \in Cases, case'[c].status # "dismissed"
                 PROVE  case'[c].version = changes'[c]
      BY DEF LiveVersionNamesOneChange
    <2>1. CASE c \in Reopened(r)
      BY <1>7, <1>9, <2>1 DEF RemediationInv, LiveVersionNamesOneChange
    <2>2. CASE c \notin Reopened(r)
      BY <1>10, <1>11, <2>2 DEF RemediationInv, LiveVersionNamesOneChange
    <2> QED BY <2>1, <2>2
  <1>20. AttemptsFit'
    <2> SUFFICES ASSUME NEW c \in Cases, NEW n \in DOMAIN attempts[c]
                 PROVE  AttemptFits(c, n)'
      BY <1>5 DEF AttemptsFit
    <2>1. attempts[c][n].job = NoJob \/ attempts[c][n].job \in Jobs
      BY AttemptTyped DEF RemediationInv, Attempt
    <2>2. CASE c \notin Reopened(r)
      <3>1. c \notin Dismissed(r)
        BY <1>8
      <3>2. case'[c] = case[c] /\ attempts'[c] = attempts[c] /\ attempts[c][n].job # j
        BY <1>6, <1>11, <2>2, <3>1 DEF Bound
      <3> QED BY <1>4, <2>1, <3>2, AttemptRowStays
    <2>3. CASE c \in Reopened(r)
      <3>1. PICK a : Bound(c, a, j)
        BY <1>6, <2>3
      <3>2. /\ attempts[c][a].proof = NoJob /\ a # 0
            /\ \A m \in DOMAIN attempts[c] \ {a} :
                 /\ attempts[c][m].job \in Jobs \ {j} /\ attempts[c][m].resolution # "pending"
                 /\ status[attempts[c][m].job] \notin Waiting
        BY <1>2, <3>1, WaitingCase DEF Waiting
      <3>3. CASE n = a
        BY <1>4, <1>5, <1>9, <2>3, <3>1, <3>2, <3>3, RemediationAssumption
        DEF AttemptFits, Bound, Waiting
      <3>4. CASE n # a
        <4>1. AttemptFits(c, n) /\ attempts'[c][n] = attempts[c][n] /\ n # 0
              /\ status'[attempts[c][n].job] = status[attempts[c][n].job]
          BY <1>4, <1>5, <3>2, <3>4, AttemptTyped DEF RemediationInv, AttemptsFit
        <4> QED BY <1>9, <2>3, <3>2, <3>4, <4>1, RemediationAssumption DEF AttemptFits
      <3> QED BY <3>3, <3>4
    <2> QED BY <2>2, <2>3
  <1>21. (\A k \in Jobs : SealFits(k))'
    <2> SUFFICES ASSUME NEW k \in Jobs PROVE SealFits(k)'
      OBVIOUS
    <2>1. \/ status'[k] = status[k]
          \/ status[k] \notin {"sealing", "approved"} /\ status'[k] \notin {"sealing", "approved"}
      BY <1>2, <1>4
    <2> QED BY <1>3, <1>12, <1>16, <2>1, SealStays
  <1>22. (\A q \in Requests : RequestFits(q))' /\ OneHolder'
    <2>1. \A q \in Requests \ {r} : Holds(q) => status'[req[q].job] = status[req[q].job]
      BY <1>1, <1>2, <1>4, HeldIsUnderReview DEF RemediationInv, OneHolder
    <2> QED BY <1>3, <1>12, <1>13, <1>14, <1>16, <2>1, RequestsEnd DEF MovesOn
  <1>23. LifecycleStep
    <2>1. BoundsStay
      BY <1>5 DEF BoundsStay, Bound
    <2>2. \A d \in Cases : case'[d].proof = case[d].proof
      BY <1>8, <1>9, <1>10, <1>11
    <2> DEFINE gone == {d \in Dismissed(r) : case[d].status \in {"pending_triage", "open"}}
    <2>3. /\ gone \in SUBSET Cases
          /\ \A d \in gone : /\ case[d].status \in {"pending_triage", "open"}
                             /\ case'[d].status = "dismissed"
      BY <1>8, <1>10
    <2>4. ASSUME NEW d \in Cases \ gone, d \notin Reopened(r)
          PROVE  case'[d].status = case[d].status /\ WaitsOn(d)
      <3>1. CASE d \in Dismissed(r)
        <4>1. case[d].status = "dismissed"
          BY <1>8, <2>4, <3>1 DEF FindingCase, CASE_STATUSES, Remediated, Exists
        <4> QED BY <1>10, <3>1, <4>1 DEF WaitsOn
      <3>2. CASE d \notin Dismissed(r)
        BY <1>11, <2>4, <3>2 DEF WaitsOn
      <3> QED BY <3>1, <3>2
    <2>5. ASSUME NEW c \in Reopened(r) PROVE LifecycleStep
      <3>1. c \in Cases /\ case[c].status = "verification_pending"
        BY <1>7, <2>5
      <3>2. \A d \in Reopened(r) : d = c
        <4> SUFFICES ASSUME NEW d \in Reopened(r) PROVE d = c
          OBVIOUS
        <4>1. /\ Bound(c, case[c].active, j) /\ Bound(d, case[d].active, j)
              /\ c \in Cases /\ d \in Cases
          BY <1>7, <2>5
        <4>2. DOMAIN attempts[c] \subseteq Nat /\ DOMAIN attempts[d] \subseteq Nat
          BY <4>1, AttemptTyped DEF RemediationInv
        <4> QED BY <4>1, <4>2 DEF RemediationInv, OneAttemptPerJob, Bound
      <3>3. stages[c] = "verification_pending"
            /\ gone \in SUBSET {d \in Cases : stages[d] \in {"pending_triage", "open"}}
        BY <2>3, <3>1 DEF stages
      <3>4. stages' = [d \in Cases |-> IF d = c THEN "remediation_in_progress"
                                       ELSE IF d \in gone THEN "dismissed" ELSE stages[d]]
        BY <1>9, <2>3, <2>4, <2>5, <3>2 DEF stages
      <3>5. \A d \in Cases \ {c} : verifiers'[d] = verifiers[d]
        <4> SUFFICES ASSUME NEW d \in Cases \ {c} PROVE verifiers'[d] = verifiers[d]
          OBVIOUS
        <4>1. WaitsOn(d)
          <5>1. CASE d \in gone
            BY <2>3, <5>1 DEF WaitsOn
          <5>2. CASE d \notin gone
            BY <2>4, <3>2, <5>2
          <5> QED BY <5>1, <5>2
        <4> QED BY <2>1, <4>1, VerifierStays
      <3>6. verifiers' = [verifiers EXCEPT ![c] = NoJob]
        <4>1. verifiers'[c] = NoJob
          BY <1>9, <2>5, <3>1 DEF verifiers
        <4> QED BY <3>1, <3>5, <4>1 DEF verifiers
      <3>7. usedJobs' = usedJobs /\ closures' = closures
        BY <1>12, <2>1, <2>2, UsedStay DEF closures, RemediationInv
      <3> HIDE DEF gone
      <3>8. Lifecycle!GoOn(c)
        BY <3>3, <3>4, <3>6, <3>7
        DEF Lifecycle!GoOn, stages, verifiers, usedJobs, closures
      <3> QED BY <3>1, <3>8 DEF LifecycleStep, Lifecycle!Next
    <2>6. CASE Reopened(r) = {} /\ gone = {}
      BY <1>12, <2>1, <2>2, <2>4, <2>6, Unseen
    <2>7. CASE Reopened(r) = {} /\ gone # {}
      <3>1. \A d \in Cases \ gone : case'[d].status = case[d].status /\ WaitsOn(d)
        BY <2>4, <2>7
      <3> HIDE DEF gone
      <3>2. Lifecycle!Move({"pending_triage", "open"}, "dismissed")
        BY <1>12, <2>1, <2>2, <2>3, <2>7, <3>1, Moved
      <3> QED BY <3>2 DEF LifecycleStep, Lifecycle!Next, Lifecycle!Dismiss
    <2> QED BY <2>5, <2>6, <2>7
  <1> QED BY <1>12, <1>16, <1>17, <1>18, <1>19, <1>20, <1>21, <1>22, <1>23 DEF RemediationInv

\* The saga's last commit never finds its attempt in another state.
LEMMA Completed ==
  ASSUME RemediationInv, NEW j \in Jobs, Complete(j)
  PROVE  RemediationInv' /\ LifecycleStep
  <1> DEFINE mine == {a[1] : a \in AttemptsOf(j)}
  <1>1. /\ status[j] = "sealing" /\ seal[j].state = "staged"
        /\ SealFits(j) /\ seal[j].frozen = Context(j)
    BY DEF Complete, RemediationInv, SealFits
  <1>2. ASSUME NEW c \in Cases, NEW n, Bound(c, n, j)
        PROVE  /\ case[c].status = "verification_pending" /\ case[c].active = n
               /\ Exists(c) /\ status[Source[c]] = "approved" /\ n \in Nat \ {0}
               /\ case[c].version \in Nat /\ case[c].version >= 2 /\ case[c].proof = NoJob
               /\ attempts[c][n] \in Attempt /\ attempts[c][n].proof = NoJob
               /\ attempts[c][n].resolution # "pending"
               /\ \A m \in DOMAIN attempts[c] \ {n} :
                    /\ attempts[c][m].job \in Jobs \ {j}
                    /\ attempts[c][m].resolution # "pending"
                    /\ status[attempts[c][m].job] \notin Waiting
    BY <1>1, <1>2, WaitingCase DEF Waiting
  <1>3. Sealable(j)
    <2> SUFFICES ASSUME NEW a \in AttemptsOf(j)
                 PROVE  /\ attempts[a[1]][a[2]].resolution # "pending"
                        /\ attempts[a[1]][a[2]].proof = NoJob
      BY <1>1 DEF Sealable
    <2>1. a[1] \in Cases /\ Bound(a[1], a[2], j)
      BY AttemptRows DEF RemediationInv
    <2> QED BY <1>2, <2>1
  <1>4. /\ UNCHANGED <<runs, result, commands, req>>
        /\ status' = [status EXCEPT ![j] = "approved"]
        /\ seal' = [seal EXCEPT ![j].state = "completed"]
        /\ attempts' = [c \in Cases |-> [n \in DOMAIN attempts[c] |->
               IF <<c, n>> \in AttemptsOf(j)
               THEN [attempts[c][n] EXCEPT !.proof = j] ELSE attempts[c][n]]]
        /\ case' = [c \in Cases |->
               IF c \notin mine THEN case[c]
               ELSE IF \E n \in DOMAIN attempts[c] :
                         attempts[c][n].job = j /\ attempts[c][n].resolution = "resolved"
               THEN [case[c] EXCEPT !.status = "closed", !.active = 0,
                                    !.proof = j, !.version = @ + 1]
               ELSE [case[c] EXCEPT !.status = "remediation_in_progress",
                                    !.active = 0, !.version = @ + 1]]
        /\ changes' = [c \in Cases |-> IF c \in mine THEN changes[c] + 1 ELSE changes[c]]
    BY <1>3 DEF Complete, CountChange
  <1>5. ASSUME NEW c \in Cases PROVE c \in mine <=> \E n : Bound(c, n, j)
    <2>1. ASSUME c \in mine PROVE \E n : Bound(c, n, j)
      <3>1. PICK a \in AttemptsOf(j) : a[1] = c
        BY <2>1
      <3> QED BY <3>1, AttemptRows DEF RemediationInv
    <2>2. ASSUME NEW n, Bound(c, n, j) PROVE c \in mine
      <3>1. <<c, n>> \in AttemptsOf(j)
        BY <2>2, AttemptRows DEF RemediationInv
      <3> QED BY <3>1
    <2> QED BY <2>1, <2>2
  <1>6. /\ status'[j] = "approved" /\ \A k \in Jobs \ {j} : status'[k] = status[k]
        /\ seal'[j].state = "completed" /\ seal'[j].frozen = Context(j)
        /\ \A k \in Jobs \ {j} : seal'[k] = seal[k]
    BY <1>1, <1>4 DEF RemediationInv, Typed
  <1>7. ASSUME NEW c \in Cases, NEW n \in DOMAIN attempts[c]
        PROVE  /\ attempts'[c][n] \in Attempt
               /\ attempts'[c][n].job = attempts[c][n].job
               /\ attempts'[c][n].resolution = attempts[c][n].resolution
               /\ attempts[c][n].job # j => attempts'[c][n] = attempts[c][n]
               /\ attempts[c][n].job = j => attempts'[c][n].proof = j
    <2>1. attempts'[c][n] = IF <<c, n>> \in AttemptsOf(j)
                            THEN [attempts[c][n] EXCEPT !.proof = j] ELSE attempts[c][n]
      BY <1>4
    <2>2. <<c, n>> \in AttemptsOf(j) <=> attempts[c][n].job = j
      BY AttemptRows DEF RemediationInv, Bound
    <2>3. attempts[c][n] \in Attempt
      BY AttemptTyped DEF RemediationInv
    <2> QED BY <2>1, <2>2, <2>3 DEF Attempt
  <1>8. attempts' = [c \in Cases |-> [n \in DOMAIN attempts[c] |-> attempts'[c][n]]]
    BY <1>4
  <1>9. /\ attempts' \in [Cases -> Seq(Attempt)]
        /\ \A c \in Cases : /\ DOMAIN attempts'[c] = DOMAIN attempts[c]
                            /\ Len(attempts'[c]) = Len(attempts[c])
        /\ \A c \in Cases : (\A n \in DOMAIN attempts[c] : attempts'[c][n] = attempts[c][n])
                            => attempts'[c] = attempts[c]
    BY <1>7, <1>8, InPlace DEF RemediationInv
  <1>10. ASSUME NEW c \in Cases, c \notin mine
         PROVE  case'[c] = case[c] /\ attempts'[c] = attempts[c] /\ changes'[c] = changes[c]
    <2>1. \A n \in DOMAIN attempts[c] : attempts[c][n].job # j
      BY <1>5, <1>10 DEF Bound
    <2> QED BY <1>4, <1>7, <1>9, <1>10, <2>1
  <1>11. ASSUME NEW c \in Cases, NEW n, Bound(c, n, j)
         PROVE  /\ case'[c].status = IF attempts[c][n].resolution = "resolved"
                                     THEN "closed" ELSE "remediation_in_progress"
                /\ case'[c].proof = IF attempts[c][n].resolution = "resolved"
                                    THEN j ELSE NoJob
                /\ case'[c].active = 0 /\ case'[c].version = case[c].version + 1
                /\ case'[c].result = case[c].result
                /\ changes'[c] = changes[c] + 1
                /\ case'[c] \in FindingCase
    <2>1. case[c] \in FindingCase
      BY DEF RemediationInv, Typed
    <2>2. PICK v \in Nat : v = case[c].version + 1
      BY <1>2, <1>11
    <2>3. attempts[c][n].resolution = "resolved" <=>
            \E m \in DOMAIN attempts[c] :
              attempts[c][m].job = j /\ attempts[c][m].resolution = "resolved"
      BY <1>2, <1>11 DEF Bound
    <2>4. c \in mine
      BY <1>5, <1>11
    <2> HIDE DEF mine
    <2>5. case'[c] = IF attempts[c][n].resolution = "resolved"
                     THEN [case[c] EXCEPT !.status = "closed", !.active = 0,
                                          !.proof = j, !.version = v]
                     ELSE [case[c] EXCEPT !.status = "remediation_in_progress",
                                          !.active = 0, !.version = v]
      BY <1>4, <2>2, <2>3, <2>4
    <2>6. 0 \in 0..MaxAttempts /\ case[c].proof = NoJob
      BY <1>2, <1>11, RemediationAssumption
    <2>7. changes'[c] = changes[c] + 1
      BY <1>4, <2>4
    <2> QED BY <2>1, <2>2, <2>5, <2>6, <2>7 DEF FindingCase, CASE_STATUSES
  <1>12. \A c \in Cases : c \in mine \/ c \notin mine
    OBVIOUS
  <1> HIDE DEF mine
  <1>13. Typed'
    <2>1. case' \in [Cases -> FindingCase]
      <3>1. ASSUME NEW c \in Cases PROVE case'[c] \in FindingCase
        <4>1. CASE c \in mine
          BY <1>5, <1>11, <4>1
        <4>2. CASE c \notin mine
          BY <1>10, <4>2 DEF RemediationInv, Typed
        <4> QED BY <4>1, <4>2
      <3>2. case' = [c \in Cases |-> case'[c]]
        BY <1>4
      <3> QED BY <3>1, <3>2
    <2>2. status' \in [Jobs -> JobStates]
      BY <1>4 DEF RemediationInv, Typed, JobStates
    <2>3. seal' \in [Jobs -> [state : SealStates, frozen : Snapshot]]
      BY <1>4 DEF RemediationInv, Typed, SealStates
    <2>4. changes' \in [Cases -> Nat]
      <3>1. \A c \in Cases : changes[c] \in Nat /\ changes[c] + 1 \in Nat
        BY DEF RemediationInv, Typed
      <3> QED BY <1>4, <3>1
    <2> QED BY <1>4, <1>9, <2>1, <2>2, <2>3, <2>4 DEF RemediationInv, Typed
  <1>14. JobsMoveOn
    BY <1>1, <1>4, <1>6 DEF JobsMoveOn, Reviewed
  <1>15. CasesMoveOn
    <2> SUFFICES ASSUME NEW c \in Cases
                 PROVE  /\ Exists(c) => case'[c].status # "absent"
                        /\ ~Exists(c) /\ case'[c].status # "absent" =>
                             status[Source[c]] \notin Reviewed
                        /\ case'[c].status = "pending_triage" =>
                             ~Exists(c) \/ case[c].status = "pending_triage"
                        /\ case[c].status = "dismissed" => case'[c].status = "dismissed"
                        /\ status[Source[c]] = "approved" =>
                             \/ case'[c] = case[c] /\ Len(attempts'[c]) = Len(attempts[c])
                             \/ case'[c].version > case[c].version
      BY DEF CasesMoveOn
    <2>1. CASE c \notin mine
      BY <1>10, <2>1 DEF Exists
    <2>2. ASSUME NEW n, Bound(c, n, j)
          PROVE  /\ case'[c].status \in {"closed", "remediation_in_progress"}
                 /\ case[c].status = "verification_pending" /\ Exists(c)
                 /\ case'[c].version > case[c].version
      BY <1>2, <1>11, <2>2
    <2> QED BY <1>5, <2>1, <2>2
  <1>16. Decides(j)
    BY <1>4, <1>6, <1>7, <1>9 DEF Decides
  <1>17. BindingsStay /\ OneAttemptPerJob'
    <2>1. \A c \in Cases : case[c].status = "verification_pending" /\ case'[c] # case[c] =>
            Bound(c, case[c].active, j)
      BY <1>2, <1>5, <1>10
    <2> QED BY <1>1, <1>6, <1>16, <2>1, DecidedBindings
  <1>18. (\A c \in Cases : CaseFits(c))'
    <2> SUFFICES ASSUME NEW c \in Cases PROVE CaseFits(c)'
      OBVIOUS
    <2>1. CASE c \notin mine
      BY <1>10, <1>14, <2>1, CaseRowStays
    <2>2. ASSUME NEW n, Bound(c, n, j) PROVE CaseFits(c)'
      <3>1. /\ case[c].version \in Nat /\ case[c].version >= 2 /\ Exists(c) /\ CaseFits(c)
            /\ status[Source[c]] = "approved" /\ Source[c] \in Jobs
        BY <1>2, <2>2, RemediationAssumption DEF RemediationInv
      <3>2. /\ status'[Source[c]] = "approved" /\ IsFaithful(c)'
            /\ case'[c].version >= 2 /\ case'[c].active = 0
        <4>1. case'[c].version = case[c].version + 1 /\ case'[c].result = case[c].result
              /\ case'[c].active = 0
          BY <1>11, <2>2
        <4>2. status'[Source[c]] = "approved" /\ IsFaithful(c)
          BY <1>6, <3>1 DEF CaseFits
        <4>3. IsFaithful(c)'
          BY <1>4, <4>1, <4>2 DEF IsFaithful
        <4> QED BY <3>1, <4>1, <4>2, <4>3
      <3>3. CASE attempts[c][n].resolution # "resolved"
        <4>1. case'[c].status = "remediation_in_progress" /\ case'[c].proof = NoJob
          BY <1>11, <2>2, <3>3
        <4> QED BY <3>2, <4>1 DEF CaseFits, Exists, Reviewed, Remediated
      <3>4. CASE attempts[c][n].resolution = "resolved"
        <4>1. case'[c].status = "closed" /\ case'[c].proof = j
          BY <1>11, <2>2, <3>4
        <4>2. /\ n \in DOMAIN attempts'[c] /\ j # NoJob
              /\ attempts'[c][n].job = j /\ attempts'[c][n].proof = j
              /\ attempts'[c][n].resolution = "resolved"
          BY <1>7, <1>9, <2>2, <3>4, RemediationAssumption DEF Bound
        <4>3. {m \in DOMAIN attempts'[c] : attempts'[c][m].proof = j} = {n}
          <5> SUFFICES ASSUME NEW m \in DOMAIN attempts[c], m # n
                       PROVE  attempts'[c][m].proof # j
            BY <1>9, <4>2
          <5>1. AttemptFits(c, m) /\ attempts[c][m].job # j
            BY <1>2, <2>2 DEF RemediationInv, AttemptsFit
          <5> QED BY <1>7, <4>2, <5>1 DEF AttemptFits
        <4>4. Context(j) = [case |-> c, no |-> n, status |-> "verification_pending",
                            version |-> case'[c].version - 1, resolution |-> "resolved"]
          <5>1. Context(j) = [case |-> c, no |-> n, status |-> case[c].status,
                              version |-> case[c].version,
                              resolution |-> attempts[c][n].resolution]
            BY <2>2, ContextIsTheRow DEF RemediationInv
          <5>2. case[c].version = case'[c].version - 1
                /\ case[c].status = "verification_pending"
            BY <1>2, <1>11, <2>2
          <5> QED BY <3>4, <5>1, <5>2
        <4>5. IsClosedProperly(c)'
          BY <1>6, <3>2, <4>1, <4>2, <4>3, <4>4 DEF IsClosedProperly
        <4> QED BY <3>2, <4>1, <4>5 DEF CaseFits, Exists, Reviewed, Remediated
      <3> QED BY <3>3, <3>4
    <2> QED BY <1>5, <2>1, <2>2
  <1>19. ReviewedSourceIsDecided'
    <2> SUFFICES ASSUME NEW c \in Cases, Exists(c)'
                 PROVE  /\ status'[Source[c]] \in {"sealing", "approved"} =>
                             c \in Demo \/ case'[c].status # "pending_triage"
                        /\ status'[Source[c]] = "rejected" => case'[c].status = "dismissed"
      BY DEF ReviewedSourceIsDecided
    <2>1. Source[c] \in Jobs
      BY RemediationAssumption
    <2>2. CASE c \notin mine
      BY <1>1, <1>6, <1>10, <2>1, <2>2 DEF RemediationInv, ReviewedSourceIsDecided, Exists
    <2>3. ASSUME NEW n, Bound(c, n, j)
          PROVE  /\ case'[c].status \in {"closed", "remediation_in_progress"}
                 /\ status'[Source[c]] = "approved"
      BY <1>1, <1>2, <1>6, <1>11, <2>1, <2>3
    <2> QED BY <1>5, <2>2, <2>3
  <1>20. LiveVersionNamesOneChange'
    <2> SUFFICES ASSUME NEW c \in Cases, case'[c].status # "dismissed"
                 PROVE  case'[c].version = changes'[c]
      BY DEF LiveVersionNamesOneChange
    <2>1. CASE c \notin mine
      BY <1>10, <2>1 DEF RemediationInv, LiveVersionNamesOneChange
    <2>2. ASSUME NEW n, Bound(c, n, j) PROVE case'[c].version = changes'[c]
      BY <1>2, <1>11, <2>2 DEF RemediationInv, LiveVersionNamesOneChange
    <2> QED BY <1>5, <2>1, <2>2
  <1>21. AttemptsFit'
    <2> SUFFICES ASSUME NEW c \in Cases, NEW m \in DOMAIN attempts[c]
                 PROVE  AttemptFits(c, m)'
      BY <1>9 DEF AttemptsFit
    <2>1. attempts[c][m].job = NoJob \/ attempts[c][m].job \in Jobs
      BY AttemptTyped DEF RemediationInv, Attempt
    <2>2. CASE c \notin mine
      <3>1. case'[c] = case[c] /\ attempts'[c] = attempts[c] /\ attempts[c][m].job # j
        BY <1>5, <1>10, <2>2 DEF Bound
      <3> QED BY <1>6, <2>1, <3>1, AttemptRowStays
    <2>3. ASSUME NEW n, Bound(c, n, j) PROVE AttemptFits(c, m)'
      <3>1. case'[c].active = 0 /\ m # 0
        BY <1>11, <2>3, AttemptTyped DEF RemediationInv
      <3>2. CASE m = n
        <4>1. /\ attempts'[c][m].job = j /\ attempts'[c][m].proof = j /\ j # NoJob
              /\ attempts'[c][m].resolution # "pending"
          BY <1>2, <1>7, <2>3, <3>2, RemediationAssumption DEF Bound
        <4> QED BY <1>6, <3>1, <4>1 DEF AttemptFits, Waiting
      <3>3. CASE m # n
        <4>1. /\ AttemptFits(c, m) /\ attempts[c][m].job \in Jobs \ {j}
              /\ attempts[c][m].resolution # "pending"
              /\ status[attempts[c][m].job] \notin Waiting
          BY <1>2, <2>3, <3>3 DEF RemediationInv, AttemptsFit
        <4>2. /\ attempts'[c][m] = attempts[c][m]
              /\ status'[attempts[c][m].job] = status[attempts[c][m].job]
          BY <1>6, <1>7, <4>1
        <4> QED BY <3>1, <4>1, <4>2, RemediationAssumption DEF AttemptFits
      <3> QED BY <3>2, <3>3
    <2> QED BY <1>5, <2>2, <2>3
  <1>22. (\A k \in Jobs : SealFits(k))'
    <2>1. ASSUME NEW k \in Jobs \ {j} PROVE SealFits(k)'
      BY <1>6, <1>13, <1>17, SealStays
    <2>2. SealFits(j)'
      BY <1>6 DEF SealFits
    <2> QED BY <2>1, <2>2
  <1>23. ASSUME NEW r \in Requests PROVE RequestFits(r)'
    <2>1. Holds(r) => status'[req[r].job] = status[req[r].job]
      BY <1>1, <1>6, HeldIsUnderReview
    <2> QED BY <1>4, <1>13, <1>14, <1>15, <1>17, <2>1, RequestStays DEF MovesOn
  <1>24. OneHolder'
    BY <1>4 DEF RemediationInv, OneHolder, Holds, At
  <1>25. LifecycleStep
    <2>1. BoundsStay
      BY <1>7, <1>9 DEF BoundsStay, Bound
    <2>2. \A d \in Cases \ mine : /\ case'[d].status = case[d].status
                                  /\ case'[d].proof = case[d].proof
                                  /\ WaitsOn(d)
      BY <1>10 DEF WaitsOn
    <2>3. ASSUME NEW c \in Cases, NEW n, Bound(c, n, j) PROVE LifecycleStep
      <3>1. ASSUME NEW d \in Cases \ {c} PROVE d \notin mine
        <4> SUFFICES ASSUME NEW m, Bound(d, m, j) PROVE FALSE
          BY <1>5
        <4>1. n \in Nat /\ m \in Nat
          BY <1>2, <2>3
        <4> QED BY <2>3, <4>1 DEF RemediationInv, OneAttemptPerJob
      <3>2. /\ case[c].status = "verification_pending" /\ case[c].active = n
            /\ attempts[c][n].job = j /\ case[c].proof = NoJob
        BY <1>2, <2>3 DEF Bound
      <3>3. usedJobs' = usedJobs
        BY <1>13, <2>1, UsedStay DEF RemediationInv
      <3>4. verifiers' = [verifiers EXCEPT ![c] = NoJob]
        <4>1. verifiers'[c] = NoJob
          BY <1>11, <2>3 DEF verifiers
        <4>2. \A d \in Cases \ {c} : verifiers'[d] = verifiers[d]
          BY <2>1, <2>2, <3>1, VerifierStays
        <4> QED BY <4>1, <4>2 DEF verifiers
      <3>5. stages[c] = "verification_pending" /\ verifiers[c] = j /\ closures[c] = NoJob
        BY <3>2 DEF stages, verifiers, closures
      <3>6. \A d \in Cases \ {c} : stages'[d] = stages[d] /\ closures'[d] = closures[d]
        BY <2>2, <3>1 DEF stages, closures
      <3>7. CASE attempts[c][n].resolution = "resolved"
        <4>1. stages'[c] = "closed" /\ closures'[c] = j
          BY <1>11, <2>3, <3>7 DEF stages, closures
        <4>2. /\ stages' = [stages EXCEPT ![c] = "closed"]
              /\ closures' = [closures EXCEPT ![c] = verifiers[c]]
          BY <3>5, <3>6, <4>1 DEF stages, closures
        <4>3. Lifecycle!Close(c)
          BY <3>3, <3>4, <3>5, <4>2
          DEF Lifecycle!Close, stages, verifiers, usedJobs, closures
        <4> QED BY <4>3 DEF LifecycleStep, Lifecycle!Next
      <3>8. CASE attempts[c][n].resolution # "resolved"
        <4>1. stages'[c] = "remediation_in_progress" /\ closures'[c] = NoJob
          BY <1>11, <2>3, <3>8 DEF stages, closures
        <4>2. /\ stages' = [d \in Cases |-> IF d = c THEN "remediation_in_progress"
                                            ELSE IF d \in {} THEN "dismissed" ELSE stages[d]]
              /\ closures' = closures
          BY <3>5, <3>6, <4>1 DEF stages, closures
        <4>3. {} \in SUBSET {d \in Cases : stages[d] \in {"pending_triage", "open"}}
          OBVIOUS
        <4>4. Lifecycle!GoOn(c)
          BY <3>3, <3>4, <3>5, <4>2, <4>3
          DEF Lifecycle!GoOn, stages, verifiers, usedJobs, closures
        <4> QED BY <4>4 DEF LifecycleStep, Lifecycle!Next
      <3> QED BY <3>7, <3>8
    <2>4. CASE \A c \in Cases : c \notin mine
      BY <1>13, <2>1, <2>2, <2>4, Unseen
    <2> QED BY <1>5, <2>3, <2>4
  <1> QED BY <1>13, <1>17, <1>18, <1>19, <1>20, <1>21, <1>22, <1>23, <1>24, <1>25
        DEF RemediationInv

-----------------------------------------------------------------------------
(* Every step.                                                             *)

\* A step that leaves the cases and their attempts alone.
LEMMA CasesLeftAlone ==
  ASSUME RemediationInv, RemediationInv', UNCHANGED <<case, attempts>>
  PROVE  RemediationInv' /\ LifecycleStep
  <1>1. BoundsStay /\ \A c \in Cases : WaitsOn(c)
    BY DEF BoundsStay, Bound, WaitsOn
  <1> QED BY <1>1, Unseen DEF RemediationInv

LEMMA CommandEnds ==
  ASSUME RemediationInv, NEW r \in Requests,
         WriteCommand(r) \/ WriteAttempt(r) \/ \E j \in Jobs : WriteBinding(r, j)
  PROVE  RemediationInv' /\ LifecycleStep
  <1>1. CASE WriteCommand(r)
    <2>1. CASE Commits(r)
      BY <1>1, <2>1, CommandWritten
    <2>2. CASE ~Commits(r)
      BY <1>1, <2>2, NothingWritten, CasesLeftAlone DEF WriteCommand, rowVars
    <2> QED BY <2>1, <2>2
  <1>2. CASE WriteAttempt(r)
    <2>1. CASE Commits(r)
      BY <1>2, <2>1, AttemptWritten
    <2>2. CASE ~Commits(r)
      BY <1>2, <2>2, NothingWritten, CasesLeftAlone DEF WriteAttempt, rowVars
    <2> QED BY <2>1, <2>2
  <1>3. ASSUME NEW j \in Jobs, WriteBinding(r, j) PROVE RemediationInv' /\ LifecycleStep
    <2>1. CASE Binds(r)
      BY <1>3, <2>1, BindingWritten
    <2>2. CASE ~Binds(r)
      BY <1>3, <2>2, NothingWritten, CasesLeftAlone DEF WriteBinding, rowVars
    <2> QED BY <2>1, <2>2
  <1> QED BY <1>1, <1>2, <1>3

LEMMA UnchangedStep ==
  ASSUME RemediationInv, UNCHANGED vars
  PROVE  RemediationInv'
  <1>1. (\A j \in Jobs : SealFits(j))'
    <2>1. ASSUME NEW j \in Jobs PROVE Context(j)' = Context(j)
      <3>1. AttemptsOf(j)' = AttemptsOf(j)
        BY DEF AttemptsOf, vars
      <3> QED BY <3>1 DEF Context, vars
    <2> QED BY <2>1 DEF RemediationInv, SealFits, vars
  <1>2. (\A r \in Requests : RequestFits(r))' /\ OneHolder'
    BY DEF RemediationInv, RequestFits, CommandFits, ReviewFits, HoldingFits,
           OneHolder, Holds, At, Exists, Untriaged, AttemptsOf, Bound, vars
  <1>3. Typed'
    BY DEF RemediationInv, Typed, vars
  <1>4. (\A c \in Cases : CaseFits(c))'
    <2>1. JobsMoveOn
      BY DEF JobsMoveOn, vars
    <2> QED BY <2>1, CaseRowStays DEF vars
  <1>5. (ReviewedSourceIsDecided /\ LiveVersionNamesOneChange /\ AttemptsFit
         /\ OneAttemptPerJob)'
    BY DEF RemediationInv, ReviewedSourceIsDecided, LiveVersionNamesOneChange,
           AttemptsFit, AttemptFits, OneAttemptPerJob, Bound, Exists, vars
  <1> QED BY <1>1, <1>2, <1>3, <1>4, <1>5 DEF RemediationInv

LEMMA NextStep == RemediationInv /\ [Next]_vars => RemediationInv' /\ LifecycleStep
  <1> SUFFICES ASSUME RemediationInv, [Next]_vars PROVE RemediationInv' /\ LifecycleStep
    OBVIOUS
  <1>1. CASE UNCHANGED vars
    BY <1>1, UnchangedStep, CasesLeftAlone DEF vars
  <1>2. ASSUME NEW j \in Jobs, Submit(j) \/ Retry(j) \/ Stage(j)
        PROVE  RemediationInv' /\ LifecycleStep
    BY <1>2, JobSubmitted, JobRetried, Staged, CasesLeftAlone DEF Submit, Retry, Stage
  <1>3. ASSUME NEW j \in Jobs, NEW final \in BOOLEAN, FailAnalysis(j, final)
        PROVE  RemediationInv' /\ LifecycleStep
    BY <1>3, AnalysisFailed, CasesLeftAlone DEF FailAnalysis
  <1>4. ASSUME NEW j \in Jobs,
               Complete(j) \/ \E found \in SUBSET Cases : FinishAnalysis(j, found)
        PROVE  RemediationInv' /\ LifecycleStep
    BY <1>4, Completed, AnalysisFinished
  <1>5. ASSUME NEW r \in Requests,
               \/ WriteCommand(r) \/ WriteAttempt(r) \/ \E j \in Jobs : WriteBinding(r, j)
        PROVE  RemediationInv' /\ LifecycleStep
    BY <1>5, CommandEnds
  <1>6. ASSUME NEW r \in Requests, CommitApproval(r) \/ CommitRejection(r)
        PROVE  RemediationInv' /\ LifecycleStep
    BY <1>6, ApprovalCommitted, RejectionCommitted
  <1>7. ASSUME NEW r \in Requests, TakeJob(r)
        PROVE  RemediationInv' /\ LifecycleStep
    BY <1>7, JobTaken, CasesLeftAlone DEF TakeJob
  <1>8. ASSUME NEW r \in Requests, NEW c \in Cases, ReceiveUpload(r, c)
        PROVE  RemediationInv' /\ LifecycleStep
    BY <1>8, UploadReceived, CasesLeftAlone DEF ReceiveUpload
  <1>9. ASSUME NEW r \in Requests, NEW c \in Cases, NEW k \in Keys,
               \/ \E command \in CaseCommands : ReceiveTriage(r, c, k, command)
               \/ ReceiveStart(r, c, k) \/ ReceiveAttempt(r, c, k)
        PROVE  RemediationInv' /\ LifecycleStep
    BY <1>9, TriageReceived, StartReceived, AttemptReceived, CasesLeftAlone
    DEF ReceiveTriage, ReceiveStart, ReceiveAttempt, Receive
  <1>10. ASSUME NEW r \in Requests, NEW j \in Jobs,
                NEW decision \in {"approve", "reject"}, NEW resolution \in Resolutions,
                ReceiveReview(r, j, decision, resolution)
         PROVE  RemediationInv' /\ LifecycleStep
    BY <1>10, ReviewReceived, CasesLeftAlone DEF ReceiveReview
  <1> QED BY <1>1, <1>2, <1>3, <1>4, <1>5, <1>6, <1>7, <1>8, <1>9, <1>10 DEF Next

\* Whatever requests run into each other, the rows of a case, its attempts,
\* their verifications and the frozen contexts stay in the relation the code
\* relies on when it reads them.
THEOREM RemediationInvariant == Spec => []RemediationInv
  <1>1. Init => RemediationInv
    BY InitiallySound
  <1>2. RemediationInv /\ [Next]_vars => RemediationInv'
    BY NextStep
  <1> QED BY <1>1, <1>2, PTL DEF Spec

\* The scan of readiness accepts every case, and the saga finds the case as
\* its report froze it (scan_remediation_integrity,
\* validate_frozen_remediation_context).
THEOREM CasesStaySound == Spec => []CasesAreSound
  BY RemediationInvariant, InvariantIsSound, PTL

\* No approval passes over an operational finding nobody looked at, and a
\* rejection leaves no live case of the job behind (review_verification,
\* dismiss_cases_for_rejected_job).
THEOREM SourcesAreDecided == Spec => []ReviewedSourceIsDecided
  <1>1. RemediationInv => ReviewedSourceIsDecided
    BY DEF RemediationInv
  <1> QED BY <1>1, RemediationInvariant, PTL

\* The version a command compares names one change of a case that may still
\* be commanded (_apply_case_command, finalize_remediation_after_seal).
THEOREM VersionsNameChanges == Spec => []LiveVersionNamesOneChange
  <1>1. RemediationInv => LiveVersionNamesOneChange
    BY DEF RemediationInv
  <1> QED BY <1>1, RemediationInvariant, PTL

\* The handlers and the saga together move each case as FindingLifecycle says
\* (remediation.py, with review_verification and _complete_operation).
THEOREM RemediationImplementsLifecycle == Spec => ImplementsFindingLifecycle
  <1>1. Init => Lifecycle!Init
    <2> SUFFICES ASSUME Init PROVE Lifecycle!Init
      OBVIOUS
    <2>1. stages = [c \in Cases |-> "absent"] /\ closures = [c \in Cases |-> NoJob]
      BY DEF Init, NoFindingCase, stages, closures
    <2>2. verifiers = [c \in Cases |-> NoJob]
      BY DEF Init, NoFindingCase, verifiers
    <2>3. usedJobs = {}
      BY DEF Init, AttemptsOf, usedJobs
    <2> QED BY <2>1, <2>2, <2>3
          DEF Lifecycle!Init, stages, verifiers, usedJobs, closures
  <1>2. RemediationInv /\ [Next]_vars => [Lifecycle!Next]_(Lifecycle!vars)
    BY NextStep
    DEF LifecycleStep, Lifecycle!vars, stages, verifiers, usedJobs, closures
  <1> QED BY <1>1, <1>2, RemediationInvariant, PTL
        DEF Spec, ImplementsFindingLifecycle, Lifecycle!Spec
=============================================================================
