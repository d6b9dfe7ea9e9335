----------------------------- MODULE WorkOrders -----------------------------
(***************************************************************************)
(* Work orders: what services/work_orders.py freezes and allows, the       *)
(* sessions of api/work_order_routes.py that assign an order and upload    *)
(* evidence against it, and the part of an analysis attempt that evaluates *)
(* the frozen rules and moves the order (services/analysis.py).            *)
(*                                                                         *)
(* A route reads the order, awaits the upload, and writes it back by its   *)
(* primary key alone; two completions read the order after their fences on *)
(* two different lease rows.  So a session is a read and a write with      *)
(* anything in between.  With OneWriter the database lets one transaction  *)
(* write at a time (SQLite); without it rows are locked one by one         *)
(* (PostgreSQL, READ COMMITTED).  Claims, leases and retries of a job are  *)
(* the subject of VerificationLease and left out here.                     *)
(***************************************************************************)
EXTENDS Compliance, Integers, Sequences, FiniteSets

CONSTANTS
    Orders,          \* work order codes
    Designs,         \* engineering objects: [rules, geometry, nestedMeasurements, measured]
    Policies,        \* spatial policies a creation may ask for: [tolerance, threshold]
    Jobs,            \* one per upload: its evidence, capture and verification job
    Clerks,          \* sessions that assign an order
    Captures,        \* what a phone may report of its position
    Observations,    \* what an analyzer may report of a photo
    OneWriter

ASSUME ConstantsAssumption ==
    /\ OneWriter \in BOOLEAN
    /\ \A p \in Policies : p.tolerance \in Nat \ {0} /\ p.threshold \in Nat \ {0}
    /\ \A d \in Designs : d.geometry.vertices \in Seq(Int)
    /\ \A c \in Captures : c.position \subseteq Int /\ c.accuracy \subseteq Int

VARIABLES
    order,           \* work_orders rows, or Absent
    job,             \* the upload session, the job and its capture
    clerk,           \* assignment sessions
    evaluation       \* compliance_evaluations rows, or Absent

vars == <<order, job, clerk, evaluation>>

Absent == [absent |-> TRUE]
NoOrder == [status |-> "none", rules |-> Absent, geometry |-> Absent, policy |-> Absent]
NoJob == [phase |-> "none", order |-> "none", seen |-> "none", capture |-> Absent,
          spatial |-> "none", observed |-> Absent, verdict |-> "none"]
Idle == [order |-> "none", seen |-> "none"]

Init ==
    /\ order = [o \in Orders |-> NoOrder]
    /\ job = [j \in Jobs |-> NoJob]
    /\ clerk = [c \in Clerks |-> Idle]
    /\ evaluation = [j \in Jobs |-> Absent]

-----------------------------------------------------------------------------
\* WORK_ORDER_TRANSITIONS
Transitions == [
    none |-> {"draft"},
    draft |-> {"assigned", "closed"},
    assigned |-> {"evidence_uploaded", "closed"},
    evidence_uploaded |-> {"analyzing", "closed"},
    analyzing |-> {"needs_review", "deviation", "approved", "closed"},
    needs_review |-> {"approved", "deviation", "remediating", "closed"},
    approved |-> {"closed"},
    deviation |-> {"remediating", "closed"},
    remediating |-> {"assigned", "evidence_uploaded", "closed"},
    closed |-> {}]

MayMove(from, to) == to = from \/ to \in Transitions[from]

(* Mutant: only an order somebody has marked analyzing takes a result. *)
CompletionEntriesNarrow == {"analyzing"}

CompletionEntries == {"evidence_uploaded", "analyzing"}
CompletionTargets == {"needs_review", "deviation", "approved"}

\* The path of apply_analysis_completion_transitions: by way of analyzing, in one transaction.
CompletionAllowed(from, target) ==
    /\ target \in CompletionTargets
    /\ from \in CompletionEntries
    /\ MayMove(from, "analyzing")
    /\ MayMove("analyzing", target)

\* A compliant verdict still waits for a human: nothing maps to approved.
StatusOfVerdict(verdict) ==
    IF verdict = "deviation_detected" THEN "deviation" ELSE "needs_review"

\* The rules an order freezes are the object's.  Building the baseline writes the
\* object's expected count and specification, as rules, into a nested
\* "measurements" the two share: over what it said of the same field.
SaysOtherwise(rule, design) ==
    ~ (rule.nested /\ \E w \in design.measured : w.field = rule.field)

FrozenRules(design) ==
    IF design.rules.stated = "expected" /\ design.nestedMeasurements
    THEN [design.rules EXCEPT !.expected =
              {rule \in @ : SaysOtherwise(rule, design)} \cup design.measured]
    ELSE design.rules

\* A transaction that has written but not committed.
Completing == {j \in Jobs : job[j].phase = "completing"}
CanWrite == OneWriter => Completing = {}

-----------------------------------------------------------------------------
\* Everything a later judgement needs is frozen into the row, which starts as
\* a draft whatever the request says of an assignee.
FreezeOrder(design, policy) ==
    [status |-> "draft", rules |-> FrozenRules(design), geometry |-> design.geometry,
     policy |-> policy]

Create(o, design, policy) ==
    /\ CanWrite
    /\ order[o] = NoOrder
    /\ order' = [order EXCEPT ![o] = FreezeOrder(design, policy)]
    /\ UNCHANGED <<job, clerk, evaluation>>

AssignableFrom == {"draft", "remediating", "assigned"}

(* Mutant: an order with a deviation may be assigned again, for rework. *)
BeginAssignRework(c, o) ==
    /\ clerk[c] = Idle
    /\ order[o].status \in AssignableFrom \cup {"deviation"}
    /\ clerk' = [clerk EXCEPT ![c] = [order |-> o, seen |-> order[o].status]]
    /\ UNCHANGED <<order, job, evaluation>>

\* assign_project_work_order reads the order; the statuses it refuses end the session.
BeginAssign(c, o) ==
    /\ clerk[c] = Idle
    /\ order[o].status \in AssignableFrom
    /\ clerk' = [clerk EXCEPT ![c] = [order |-> o, seen |-> order[o].status]]
    /\ UNCHANGED <<order, job, evaluation>>

\* The write names the status only when the loaded row was not yet assigned.
CommitAssign(c) ==
    LET o == clerk[c].order
    IN  /\ clerk[c] # Idle
        /\ CanWrite
        /\ order' = IF clerk[c].seen = "assigned"
                    THEN order
                    ELSE [order EXCEPT ![o].status = "assigned"]
        /\ clerk' = [clerk EXCEPT ![c] = Idle]
        /\ UNCHANGED <<job, evaluation>>

AcceptsEvidence(status) ==
    status \in {"assigned", "remediating", "evidence_uploaded", "analyzing"}

\* The location is judged against the frozen geometry and policy, never the
\* live engineering object.
LocationJudged(o, capture) == SpatialCheck(capture, order[o].geometry, order[o].policy)

\* create_work_order_verification up to its await.
BeginUpload(j, o, capture) ==
    /\ job[j] = NoJob
    /\ AcceptsEvidence(order[o].status)
    /\ job' = [job EXCEPT ![j] =
                 [NoJob EXCEPT !.phase = "uploading",
                               !.order = o,
                               !.seen = order[o].status,
                               !.capture = capture,
                               !.spatial = LocationJudged(o, capture)]]
    /\ UNCHANGED <<order, clerk, evaluation>>

\* After the await: the evidence, its job, capture and lease are inserted, and
\* the order moves if the row loaded before the await was waiting for evidence.
CommitUpload(j) ==
    LET o == job[j].order
    IN  /\ job[j].phase = "uploading"
        /\ CanWrite
        /\ order' = IF job[j].seen \in {"assigned", "remediating"}
                    THEN [order EXCEPT ![o].status = "evidence_uploaded"]
                    ELSE order
        /\ job' = [job EXCEPT ![j].phase = "queued", ![j].seen = "none"]
        /\ UNCHANGED <<clerk, evaluation>>

\* The upload is refused (size, type, unreadable video, a failed insert): the
\* stored file is unlinked and nothing else is left.
RefuseUpload(j) ==
    /\ job[j].phase = "uploading"
    /\ job' = [job EXCEPT ![j] = NoJob]
    /\ UNCHANGED <<order, clerk, evaluation>>

\* The attempt: the analyzer's observations are judged by the frozen rules and
\* the location status stored with the capture.
Evaluate(j, observed) ==
    /\ job[j].phase = "queued"
    /\ job' = [job EXCEPT ![j].phase = "evaluated",
                          ![j].observed = observed,
                          ![j].verdict = Verdict(order[job[j].order].rules, observed,
                                                 job[j].spatial)]
    /\ UNCHANGED <<order, clerk, evaluation>>

\* The analyzer fails; the order is left where it was and takes new evidence.
AnalysisFails(j) ==
    /\ job[j].phase = "queued"
    /\ CanWrite
    /\ job' = [job EXCEPT ![j].phase = "failed"]
    /\ UNCHANGED <<order, clerk, evaluation>>

\* _complete_verification_job: the fence has written the lease, the order is read.
BeginCompletion(j) ==
    /\ job[j].phase = "evaluated"
    /\ CanWrite
    /\ job' = [job EXCEPT ![j].phase = "completing", ![j].seen = order[job[j].order].status]
    /\ UNCHANGED <<order, clerk, evaluation>>

\* The order moves, the evaluation is stored and the job waits for review, together.
CommitCompletion(j) ==
    LET o == job[j].order
        target == StatusOfVerdict(job[j].verdict)
    IN  /\ job[j].phase = "completing"
        /\ CompletionAllowed(job[j].seen, target)
        /\ order' = [order EXCEPT ![o].status = target]
        /\ evaluation' = [evaluation EXCEPT ![j] = [order |-> o,
                                                    verdict |-> job[j].verdict,
                                                    spatial |-> job[j].spatial,
                                                    observed |-> job[j].observed,
                                                    expected |-> RulesMet(order[o].rules)]]
        /\ job' = [job EXCEPT ![j].phase = "needs_review", ![j].seen = "none"]
        /\ UNCHANGED clerk

\* WorkOrderTransitionError: the transaction is rolled back and another one
\* records the job as failed, for good, with the status that was in its way.
RefuseCompletion(j) ==
    /\ job[j].phase = "completing"
    /\ ~ CompletionAllowed(job[j].seen, StatusOfVerdict(job[j].verdict))
    /\ job' = [job EXCEPT ![j].phase = "refused"]
    /\ UNCHANGED <<order, clerk, evaluation>>

RecordRefusal(j) ==
    /\ job[j].phase = "refused"
    /\ CanWrite
    /\ job' = [job EXCEPT ![j].phase = "transition_failed"]
    /\ UNCHANGED <<order, clerk, evaluation>>

-----------------------------------------------------------------------------
ClerkStep(c) == CommitAssign(c) \/ \E o \in Orders : BeginAssign(c, o)

WorkerStep(j) ==
    \/ \E observed \in Observations : Evaluate(j, observed)
    \/ AnalysisFails(j)
    \/ BeginCompletion(j)
    \/ CommitCompletion(j)
    \/ RefuseCompletion(j)
    \/ RecordRefusal(j)

Next ==
    \/ \E o \in Orders, design \in Designs, policy \in Policies : Create(o, design, policy)
    \/ \E c \in Clerks : ClerkStep(c)
    \/ \E j \in Jobs, o \in Orders, capture \in Captures : BeginUpload(j, o, capture)
    \/ \E j \in Jobs : CommitUpload(j)
    \/ \E j \in Jobs : RefuseUpload(j)
    \/ \E j \in Jobs : WorkerStep(j)

\* The worker loop serves every queued job and finishes every attempt it has begun.
Fairness == \A j \in Jobs : WF_vars(WorkerStep(j))

Spec == Init /\ [][Next]_vars /\ Fairness

-----------------------------------------------------------------------------
OrderStatuses == DOMAIN Transitions
Phases == {"none", "uploading", "queued", "evaluated", "completing", "refused",
           "needs_review", "failed", "transition_failed"}

\* Every row and every session holds what the code may put there.
TypeOK ==
    /\ \A o \in Orders : order[o] = NoOrder \/ order[o].status \in OrderStatuses \ {"none"}
    /\ \A j \in Jobs : /\ job[j].phase \in Phases
                       /\ job[j].seen \in OrderStatuses
                       /\ job[j].verdict \in Verdicts \cup {"none"}
                       /\ job[j].spatial \in {"none", "passed", "failed", "unavailable"}
    /\ \A c \in Clerks : clerk[c] = Idle \/ clerk[c].order \in Orders
    /\ \A j \in Jobs : evaluation[j] = Absent \/ evaluation[j].verdict \in Verdicts

Evaluated(o) == {j \in Jobs : evaluation[j] # Absent /\ evaluation[j].order = o}

\* An order past its uploads shows the verdict of one of its stored
\* evaluations, whatever uploads and completions overlapped; no verdict
\* approves or closes it.
StatusComesFromAnEvaluation ==
    \A o \in Orders :
        /\ order[o].status = "deviation" =>
               \E j \in Evaluated(o) : evaluation[j].verdict = "deviation_detected"
        /\ order[o].status = "needs_review" =>
               \E j \in Evaluated(o) : evaluation[j].verdict # "deviation_detected"
        /\ order[o].status \notin {"analyzing", "approved", "remediating", "closed"}

\* An evaluation is stored with the success of its job and never without it: a
\* refused completion leaves neither a verdict nor a moved order behind.
EvaluatedExactlyOnSuccess ==
    \A j \in Jobs : evaluation[j] # Absent <=> job[j].phase = "needs_review"

\* A result is refused only because somebody else moved the order meanwhile, and
\* the audit names what was met: the verdict of another upload, or an
\* assignment written over the uploaded evidence.
RefusalNeedsARival ==
    \A j \in Jobs : job[j].phase \in {"refused", "transition_failed"} =>
        \/ job[j].seen = "assigned"
        \/ \E i \in Evaluated(job[j].order) \ {j} :
               job[j].seen = StatusOfVerdict(evaluation[i].verdict)

\* What it takes to be found compliant: every expected field was seen and
\* accepted, depths and their like under calibration, the position was within
\* the frozen tolerance by a reading good enough, and nothing was reported missing.
CompliantIsEarned ==
    \A j \in Jobs : evaluation[j] # Absent /\ evaluation[j].verdict = "compliant" =>
        LET e == evaluation[j]
            frozen == order[e.order]
        IN  /\ ~ e.observed.reason
            /\ \A rule \in e.expected :
                   /\ e.observed.fields[rule.field] # {}
                   /\ e.observed.fields[rule.field] \subseteq rule.accepts
                   /\ rule.field = "depth_m" => e.observed.calibrated
            /\ frozen.rules.ignoreSpatial \/
               /\ job[j].capture.position # {}
               /\ \A a \in job[j].capture.accuracy : a > 0 /\ a <= frozen.policy.threshold
               /\ \A p \in job[j].capture.position :
                      \E i \in DOMAIN frozen.geometry.vertices :
                          \/ p - frozen.geometry.vertices[i] \in
                                 0 .. frozen.policy.tolerance
                          \/ frozen.geometry.vertices[i] - p \in
                                 0 .. frozen.policy.tolerance
                          \/ /\ frozen.geometry.type # "Point"
                             /\ \E k \in DOMAIN frozen.geometry.vertices :
                                    /\ frozen.geometry.vertices[i] <= p
                                    /\ p <= frozen.geometry.vertices[k]

\* What an order and its stored evaluations say of the evidence is the outcome
\* of one complete judgement, also where uploads, assignments and completions
\* of one order overlap.
VerdictsAreEarned ==
    /\ TypeOK
    /\ StatusComesFromAnEvaluation
    /\ EvaluatedExactlyOnSuccess
    /\ CompliantIsEarned

\* A deviation on an order is overwritten only by a session that read the
\* order before: an upload or an assignment still open, or a completion that
\* overlapped.  One that starts after the deviation leaves it alone.
OpenedBefore(o) ==
    \/ \E c \in Clerks : clerk[c].order = o /\ clerk[c].seen # "deviation"
    \/ \E j \in Jobs : /\ job[j].order = o
                       /\ job[j].phase \in {"uploading", "completing"}
                       /\ job[j].seen # "deviation"
OnlyOpenSessionsOverwriteADeviation ==
    [][\A o \in Orders : order[o].status = "deviation" /\ order'[o].status # "deviation"
           => OpenedBefore(o)]_vars

\* Evidence that waits for its verdict gets one, unless its analysis fails or
\* an assignment is written over it.
UploadedEvidenceIsDecided ==
    \A o \in Orders :
        order[o].status = "evidence_uploaded" ~>
            \/ order[o].status \in {"needs_review", "deviation", "assigned"}
            \/ \E j \in Jobs : job[j].order = o /\ job[j].phase = "failed"
=============================================================================
