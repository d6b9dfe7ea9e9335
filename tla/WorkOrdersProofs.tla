--------------------------- MODULE WorkOrdersProofs ---------------------------
(***************************************************************************)
(* Theorems about WorkOrders, for any orders, uploads and clerks, any      *)
(* designs, policies, captures and observations, and both databases.       *)
(*                                                                         *)
(* Sessions overwrite the status of an order, never what it froze: so a    *)
(* verdict is still the verdict of the rules in the row when it is stored, *)
(* whatever has become of the status it was read with.                     *)
(***************************************************************************)
EXTENDS WorkOrders, WellFoundedInduction, TLAPS

-----------------------------------------------------------------------------
(* The judgements                                                           *)

\* Every non-empty set of natural numbers has a smallest member.
LEMMA Smallest ==
  ASSUME NEW T, T \subseteq Nat, T # {}
  PROVE  \E x \in T : \A y \in T : x <= y
<1>1. PICK R : R = OpToRel(<, Nat)
  OBVIOUS
<1>2. IsWellFoundedOn(R, Nat)
  BY <1>1, NatLessThanWellFounded, Zenon
<1>3. \A x, y \in Nat : y < x => <<y, x>> \in R
  BY <1>1, Zenon DEF OpToRel
<1>4. PICK x \in T : \A y \in T : ~ (<<y, x>> \in R)
  BY <1>2, WFMin, Zenon
<1>5. \A y \in T : ~ (y < x)
  BY <1>3, <1>4
<1> QED
  BY <1>5

Near(p, v, tolerance) == p - v \in 0 .. tolerance \/ v - p \in 0 .. tolerance

\* A position accepted at a distance is near a vertex, or within the extent of
\* a line or ring (spatial.py, distance to a geometry).
LEMMA AcceptedIsNear ==
  ASSUME NEW p \in Int, NEW geometry, NEW tolerance \in Nat,
         geometry.vertices \in Seq(Int), Measurable(geometry),
         Distance(p, geometry) <= tolerance
  PROVE  \E i \in DOMAIN geometry.vertices :
           \/ Near(p, geometry.vertices[i], tolerance)
           \/ /\ geometry.type # "Point"
              /\ \E k \in DOMAIN geometry.vertices :
                   geometry.vertices[i] <= p /\ p <= geometry.vertices[k]
<1>1. PICK v \in Seq(Int) : v = geometry.vertices
  OBVIOUS
<1>2. CASE geometry.type # "Point" /\ Covers(v, p)
  BY <1>1, <1>2 DEF Covers
<1>3. CASE ~ (geometry.type # "Point" /\ Covers(v, p))
  <2>1. DOMAIN v # {} /\ \A i \in DOMAIN v : v[i] \in Int
    <3>1. Len(v) >= 1
      BY <1>1 DEF Measurable
    <3>2. DOMAIN v = 1 .. Len(v) /\ Len(v) \in Nat /\ \A i \in 1 .. Len(v) : v[i] \in Int
      OBVIOUS
    <3>3. 1 \in DOMAIN v
      BY <3>1, <3>2
    <3> QED
      BY <3>2, <3>3
  <2>2. \A d \in Distances(p, v) : d \in Nat
    BY <2>1 DEF Distances
  <2>3. Distances(p, v) # {}
    BY <2>1 DEF Distances
  <2>4. PICK d \in Distances(p, v) : \A e \in Distances(p, v) : d <= e
    BY <2>2, <2>3, Smallest
  <2>5. Distance(p, geometry) \in Distances(p, v)
    BY <1>1, <1>3, <2>4 DEF Distance
  <2>6. PICK i \in DOMAIN v :
          Distance(p, geometry) = IF p >= v[i] THEN p - v[i] ELSE v[i] - p
    BY <2>5 DEF Distances
  <2>7. Near(p, v[i], tolerance)
    BY <2>1, <2>6 DEF Near
  <2> QED
    BY <1>1, <2>7
<1> QED
  BY <1>2, <1>3

\* A location passes only by a reading good enough, near the frozen geometry.
LEMMA PassedIsNear ==
  ASSUME NEW capture \in Captures, NEW geometry, NEW policy \in Policies,
         geometry.vertices \in Seq(Int),
         SpatialCheck(capture, geometry, policy) = "passed"
  PROVE  /\ capture.position # {}
         /\ \A a \in capture.accuracy : a > 0 /\ a <= policy.threshold
         /\ \A p \in capture.position :
              \E i \in DOMAIN geometry.vertices :
                \/ Near(p, geometry.vertices[i], policy.tolerance)
                \/ /\ geometry.type # "Point"
                   /\ \E k \in DOMAIN geometry.vertices :
                        geometry.vertices[i] <= p /\ p <= geometry.vertices[k]
<1>1. /\ capture.position # {}
      /\ AccuracyAccepted(capture, policy.threshold)
      /\ Measurable(geometry)
      /\ \A p \in capture.position : Distance(p, geometry) <= policy.tolerance
  BY DEF SpatialCheck
<1>2. \A a \in capture.accuracy : a > 0 /\ a <= policy.threshold
  BY <1>1, ConstantsAssumption DEF AccuracyAccepted
<1>3. capture.position \subseteq Int /\ policy.tolerance \in Nat
  BY ConstantsAssumption
<1> QED
  BY <1>1, <1>2, <1>3, AcceptedIsNear

\* The location check has three answers.
LEMMA SpatialAnswers ==
  ASSUME NEW capture, NEW geometry, NEW policy
  PROVE  SpatialCheck(capture, geometry, policy) \in {"passed", "failed", "unavailable"}
  BY DEF SpatialCheck

\* The rule engine has four.
LEMMA VerdictAnswers ==
  ASSUME NEW rules, NEW observed, NEW spatial
  PROVE  Verdict(rules, observed, spatial) \in Verdicts
  BY DEF Verdict, Verdicts

\* What a compliant verdict says of the rules, the observation and the location.
LEMMA CompliantMeans ==
  ASSUME NEW rules, NEW observed, NEW spatial \in {"passed", "failed", "unavailable"},
         Verdict(rules, observed, spatial) = "compliant"
  PROVE  /\ ~ observed.reason
         /\ \A rule \in RulesMet(rules) :
              /\ observed.fields[rule.field] # {}
              /\ observed.fields[rule.field] \subseteq rule.accepts
              /\ rule.field = "depth_m" => observed.calibrated
         /\ rules.ignoreSpatial \/ spatial = "passed"
<1> DEFINE statuses == Statuses(rules, observed, spatial)
<1>1. /\ "insufficient_evidence" \notin statuses
      /\ "needs_review" \notin statuses
      /\ "deviation_detected" \notin statuses
  BY DEF Verdict
<1>2. ~ observed.reason
  BY <1>1 DEF Statuses
<1>3. ASSUME NEW rule \in RulesMet(rules)
      PROVE  /\ observed.fields[rule.field] # {}
             /\ observed.fields[rule.field] \subseteq rule.accepts
             /\ rule.field = "depth_m" => observed.calibrated
  <2>1. FieldStatus(rule, observed) \in statuses
    BY DEF Statuses
  <2>2. FieldStatus(rule, observed) \notin
          {"insufficient_evidence", "needs_review", "deviation_detected"}
    BY <1>1, <2>1
  <2>3. observed.fields[rule.field] # {}
    BY <2>2 DEF FieldStatus
  <2>4. ~ (NeedsCalibration(rule) /\ ~ observed.calibrated)
    BY <2>2, <2>3 DEF FieldStatus
  <2>5. ~ (/\ rule.kind = "operator"
           /\ ~ (rule.wellFormed /\ observed.fields[rule.field] \subseteq Numbers))
    BY <2>2, <2>3, <2>4 DEF FieldStatus
  <2>6. observed.fields[rule.field] \subseteq rule.accepts
    BY <2>2, <2>3, <2>4, <2>5 DEF FieldStatus
  <2> QED
    BY <2>3, <2>4, <2>6 DEF NeedsCalibration, DepthLike
<1>4. rules.ignoreSpatial \/ spatial = "passed"
  BY <1>1 DEF Statuses, SpatialStatuses
<1> QED
  BY <1>2, <1>3, <1>4
-----------------------------------------------------------------------------
(* The invariant                                                            *)

Begun == {"assigned", "evidence_uploaded", "needs_review", "deviation"}

Rows(statuses) ==
  [status : statuses, rules : {FrozenRules(d) : d \in Designs},
   geometry : {d.geometry : d \in Designs}, policy : Policies]
BegunOrders == Rows(Begun)
LiveOrders == Rows(Begun \cup {"draft"})

JobRows ==
  [phase : Phases, order : Orders \cup {"none"}, seen : OrderStatuses,
   capture : Captures \cup {Absent},
   spatial : {"none", "passed", "failed", "unavailable"},
   observed : Observations \cup {Absent}, verdict : Verdicts \cup {"none"}]

Typed ==
  /\ order \in [Orders -> {NoOrder} \cup LiveOrders]
  /\ job \in [Jobs -> JobRows]
  /\ clerk \in [Clerks -> [order : Orders \cup {"none"}, seen : {"none", "draft", "assigned"}]]
  /\ evaluation = [j \in Jobs |-> evaluation[j]]

\* A session that assigns an order has read a row that is still there.
ClerkFits(c) ==
  \/ clerk[c] = Idle
  \/ clerk[c].seen \in {"draft", "assigned"} /\ order[clerk[c].order] \in LiveOrders
     /\ clerk[c].order \in Orders

Judged == {"evaluated", "completing", "refused", "needs_review", "transition_failed"}

\* Somebody else moved the order before the completion of j read it.
Rival(j) ==
  \/ job[j].seen = "assigned"
  \/ \E i \in Jobs \ {j} : /\ evaluation[i] # Absent
                           /\ evaluation[i].order = job[j].order
                           /\ job[j].seen = StatusOfVerdict(evaluation[i].verdict)

\* The location is the answer for what the order froze.
Located(j) ==
  LET row == order[job[j].order] IN
  /\ job[j].order \in Orders /\ row \in BegunOrders
  /\ job[j].capture \in Captures
  /\ job[j].spatial = SpatialCheck(job[j].capture, row.geometry, row.policy)

\* The verdict is the one of the rules the order froze.
VerdictFits(j) ==
  job[j].verdict = Verdict(order[job[j].order].rules, job[j].observed, job[j].spatial)

Stored(j) ==
  [order |-> job[j].order, verdict |-> job[j].verdict, spatial |-> job[j].spatial,
   observed |-> job[j].observed, expected |-> RulesMet(order[job[j].order].rules)]

JobFits(j) ==
  /\ job[j].phase # "none" => Located(j)
  /\ job[j].phase = "uploading" => job[j].seen \in {"assigned", "evidence_uploaded"}
  /\ job[j].phase = "completing" => job[j].seen = "evidence_uploaded" \/ Rival(j)
  /\ job[j].phase \in {"refused", "transition_failed"} => Rival(j)
  /\ job[j].phase \in Judged => VerdictFits(j)
  /\ evaluation[j] # Absent <=> job[j].phase = "needs_review"
  /\ job[j].phase = "needs_review" => evaluation[j] = Stored(j)

WorkInv ==
  /\ Typed
  /\ \A c \in Clerks : ClerkFits(c)
  /\ \A j \in Jobs : JobFits(j)
  /\ StatusComesFromAnEvaluation

\* No row is an order that was never created, and none is read as the other.
LEMMA RowsDiffer ==
  /\ NoOrder \notin LiveOrders
  /\ \A x \in LiveOrders : x.status # "none"
  /\ BegunOrders \subseteq LiveOrders
  /\ \A x \in LiveOrders : x.status # "draft" => x \in BegunOrders
<1>1. \A x \in LiveOrders : x.status \in Begun \cup {"draft"}
  BY DEF LiveOrders, Rows
<1>2. NoOrder.status = "none"
  BY DEF NoOrder
<1>3. \A x \in LiveOrders : x.status # "none"
  BY <1>1 DEF Begun
<1>4. BegunOrders \subseteq LiveOrders
  BY DEF BegunOrders, LiveOrders, Rows
<1>5. \A x \in LiveOrders : x.status # "draft" => x \in BegunOrders
  BY DEF BegunOrders, LiveOrders, Rows
<1> QED
  BY <1>2, <1>3, <1>4, <1>5

\* A status written over a row leaves what the row froze.
LEMMA StatusWritten ==
  ASSUME NEW x \in LiveOrders, NEW s \in Begun
  PROVE  /\ [x EXCEPT !.status = s] \in BegunOrders
         /\ [x EXCEPT !.status = s].rules = x.rules
         /\ [x EXCEPT !.status = s].geometry = x.geometry
         /\ [x EXCEPT !.status = s].policy = x.policy
         /\ [x EXCEPT !.status = s].status = s
  BY DEF LiveOrders, BegunOrders, Rows

LEMMA InitWorkInv == Init => WorkInv
<1> SUFFICES ASSUME Init PROVE WorkInv
  OBVIOUS
<1>1. Typed
  BY DEF Init, Typed, NoJob, Idle, JobRows, Phases, OrderStatuses, Transitions
<1>2. \A c \in Clerks : ClerkFits(c)
  BY DEF Init, ClerkFits
<1>3. \A j \in Jobs : JobFits(j)
  BY DEF Init, JobFits, NoJob, Judged
<1>4. StatusComesFromAnEvaluation
  BY DEF Init, StatusComesFromAnEvaluation, NoOrder
<1> QED
  BY <1>1, <1>2, <1>3, <1>4 DEF WorkInv

-----------------------------------------------------------------------------
(* What each kind of step does                                              *)

\* Orders keep what they froze and never go back to a draft; a stored
\* evaluation stays.
Steady ==
  /\ \A o \in Orders : order[o] \in LiveOrders => order'[o] \in LiveOrders
  /\ \A o \in Orders : order[o] \in BegunOrders =>
       /\ order'[o] \in BegunOrders
       /\ order'[o].rules = order[o].rules
       /\ order'[o].geometry = order[o].geometry
       /\ order'[o].policy = order[o].policy
  /\ \A j \in Jobs : evaluation[j] # Absent => evaluation'[j] = evaluation[j]

\* The status of one created order is written, and nothing else of any order.
Writes(o, s) ==
  /\ o \in Orders /\ order[o] \in LiveOrders /\ s \in Begun
  /\ order' = [order EXCEPT ![o].status = s]

LEMMA WritesKeepsRows ==
  ASSUME Typed, NEW o, NEW s, Writes(o, s)
  PROVE  /\ order' \in [Orders -> {NoOrder} \cup LiveOrders]
         /\ \A p \in Orders : order[p] \in LiveOrders => order'[p] \in LiveOrders
         /\ \A p \in Orders : order[p] \in BegunOrders =>
              /\ order'[p] \in BegunOrders
              /\ order'[p].rules = order[p].rules
              /\ order'[p].geometry = order[p].geometry
              /\ order'[p].policy = order[p].policy
         /\ \A p \in Orders \ {o} : order'[p] = order[p]
         /\ order'[o].status = s
<1>1. /\ order \in [Orders -> {NoOrder} \cup LiveOrders]
      /\ o \in Orders /\ order[o] \in LiveOrders /\ s \in Begun
      /\ order' = [order EXCEPT ![o] = [order[o] EXCEPT !.status = s]]
  BY DEF Typed, Writes
<1>2. /\ order'[o] = [order[o] EXCEPT !.status = s]
      /\ \A p \in Orders \ {o} : order'[p] = order[p]
      /\ DOMAIN order' = Orders
  BY <1>1
<1>3. /\ order'[o] \in BegunOrders
      /\ order'[o].rules = order[o].rules
      /\ order'[o].geometry = order[o].geometry
      /\ order'[o].policy = order[o].policy
      /\ order'[o].status = s
  BY <1>1, <1>2, StatusWritten
<1>4. order'[o] \in LiveOrders
  BY <1>3, RowsDiffer
<1>5. order' \in [Orders -> {NoOrder} \cup LiveOrders]
  BY <1>1, <1>4
<1> QED
  BY <1>2, <1>3, <1>4, <1>5

\* A job nobody touches goes on fitting while its order stays steady.
LEMMA OthersFit ==
  ASSUME NEW j \in Jobs, JobFits(j), Steady,
         job'[j] = job[j], evaluation'[j] = evaluation[j]
  PROVE  JobFits(j)'
<1>1. Located(j) => Located(j)'
  BY DEF Located, Steady
<1>2. Rival(j) => Rival(j)'
  BY DEF Rival, Steady
<1>3. Located(j) => (VerdictFits(j) => VerdictFits(j)') /\ Stored(j)' = Stored(j)
  BY DEF Located, Steady, VerdictFits, Stored
<1>4. job[j].phase \in Judged => job[j].phase # "none"
  BY DEF Judged
<1> QED
  BY <1>1, <1>2, <1>3, <1>4 DEF JobFits

\* What a job has read of its order's place.
LEMMA SteadyClerks ==
  ASSUME NEW c \in Clerks, ClerkFits(c), Steady, clerk'[c] = clerk[c]
  PROVE  ClerkFits(c)'
  BY DEF ClerkFits, Steady

\* A status that is not a verdict needs no evaluation, and one that was
\* earned stays so.
LEMMA StatusKept ==
  ASSUME StatusComesFromAnEvaluation, Steady,
         \A j \in Jobs : evaluation[j] # Absent => evaluation'[j] # Absent,
         \A o \in Orders : order'[o].status = order[o].status
                           \/ order'[o].status \in {"draft", "assigned", "evidence_uploaded"}
  PROVE  StatusComesFromAnEvaluation'
<1> SUFFICES ASSUME NEW o \in Orders
    PROVE  /\ order'[o].status = "deviation" =>
                \E j \in Evaluated(o)' : evaluation'[j].verdict = "deviation_detected"
           /\ order'[o].status = "needs_review" =>
                \E j \in Evaluated(o)' : evaluation'[j].verdict # "deviation_detected"
           /\ order'[o].status \notin {"analyzing", "approved", "remediating", "closed"}
  BY DEF StatusComesFromAnEvaluation
<1>1. \A j \in Evaluated(o) : j \in Evaluated(o)' /\ evaluation'[j] = evaluation[j]
  BY DEF Evaluated, Steady
<1>2. CASE order'[o].status = order[o].status
  BY <1>1, <1>2 DEF StatusComesFromAnEvaluation
<1>3. CASE order'[o].status \in {"draft", "assigned", "evidence_uploaded"}
  BY <1>3
<1> QED
  BY <1>2, <1>3
-----------------------------------------------------------------------------
(* The steps                                                                *)

\* Orders and evaluations that do not change are steady.
LEMMA UnchangedIsSteady ==
  ASSUME UNCHANGED <<order, evaluation>>
  PROVE  Steady
  BY DEF Steady

LEMMA CreateKeeps ==
  ASSUME WorkInv, NEW o \in Orders, NEW design \in Designs, NEW policy \in Policies,
         Create(o, design, policy)
  PROVE  WorkInv'
<1>1. /\ order[o] = NoOrder
      /\ order' = [order EXCEPT ![o] = FreezeOrder(design, policy)]
      /\ UNCHANGED <<job, clerk, evaluation>>
  BY DEF Create
<1>2. Typed /\ order \in [Orders -> {NoOrder} \cup LiveOrders]
  BY DEF WorkInv, Typed
<1>3. FreezeOrder(design, policy) \in LiveOrders
      /\ FreezeOrder(design, policy).status = "draft"
  BY DEF FreezeOrder, LiveOrders, Rows
<1>4. /\ order'[o] = FreezeOrder(design, policy)
      /\ \A p \in Orders \ {o} : order'[p] = order[p]
  BY <1>1, <1>2
<1>5. order[o] \notin LiveOrders /\ order[o] \notin BegunOrders
  BY <1>1, RowsDiffer
<1>6. Typed'
  BY <1>1, <1>2, <1>3, <1>4 DEF Typed
<1>7. Steady
  BY <1>1, <1>4, <1>5 DEF Steady
<1>8. \A c \in Clerks : ClerkFits(c)'
  BY <1>1, <1>7, SteadyClerks DEF WorkInv
<1>9. \A j \in Jobs : JobFits(j)'
  BY <1>1, <1>7, OthersFit DEF WorkInv
<1>10. StatusComesFromAnEvaluation'
  BY <1>1, <1>3, <1>4, <1>7, StatusKept DEF WorkInv
<1> QED
  BY <1>6, <1>8, <1>9, <1>10 DEF WorkInv

LEMMA BeginAssignKeeps ==
  ASSUME WorkInv, NEW c \in Clerks, NEW o \in Orders, BeginAssign(c, o)
  PROVE  WorkInv'
<1>1. /\ order[o].status \in {"draft", "remediating", "assigned"}
      /\ clerk' = [clerk EXCEPT ![c] = [order |-> o, seen |-> order[o].status]]
      /\ UNCHANGED <<order, job, evaluation>>
  BY DEF BeginAssign, AssignableFrom
<1>2. Typed /\ order[o] \in {NoOrder} \cup LiveOrders
      /\ clerk \in [Clerks -> [order : Orders \cup {"none"}, seen : {"none", "draft", "assigned"}]]
  BY DEF WorkInv, Typed
<1>3. order[o].status # "none"
  BY <1>1
<1>4. order[o] \in LiveOrders
  BY <1>2, <1>3 DEF NoOrder
<1>5. order[o].status \in {"draft", "assigned"}
  BY <1>1, <1>4 DEF LiveOrders, Rows, Begun
<1>6. /\ clerk'[c] = [order |-> o, seen |-> order[o].status]
      /\ \A d \in Clerks \ {c} : clerk'[d] = clerk[d]
  BY <1>1, <1>2
<1>7. Typed'
  BY <1>1, <1>2, <1>5 DEF Typed
<1>8. Steady
  BY <1>1, UnchangedIsSteady
<1>9. ClerkFits(c)'
  BY <1>1, <1>4, <1>5, <1>6 DEF ClerkFits
<1>10. \A d \in Clerks \ {c} : ClerkFits(d)'
  BY <1>6, <1>8, SteadyClerks DEF WorkInv
<1>11. \A j \in Jobs : JobFits(j)'
  BY <1>1, <1>8, OthersFit DEF WorkInv
<1>12. StatusComesFromAnEvaluation'
  BY <1>1, <1>8, StatusKept DEF WorkInv
<1> QED
  BY <1>7, <1>9, <1>10, <1>11, <1>12 DEF WorkInv

LEMMA CommitAssignKeeps ==
  ASSUME WorkInv, NEW c \in Clerks, CommitAssign(c)
  PROVE  WorkInv'
<1> DEFINE o == clerk[c].order
<1>1. /\ clerk[c] # Idle
      /\ order' = order \/ order' = [order EXCEPT ![o].status = "assigned"]
      /\ clerk' = [clerk EXCEPT ![c] = Idle]
      /\ UNCHANGED <<job, evaluation>>
  BY DEF CommitAssign
<1>2. /\ Typed
      /\ clerk \in [Clerks -> [order : Orders \cup {"none"}, seen : {"none", "draft", "assigned"}]]
  BY DEF WorkInv, Typed
<1>3. o \in Orders /\ order[o] \in LiveOrders
  BY <1>1 DEF WorkInv, ClerkFits
<1>4. order' = order \/ Writes(o, "assigned")
  BY <1>1, <1>3 DEF Writes, Begun
<1>5. /\ order' \in [Orders -> {NoOrder} \cup LiveOrders]
      /\ Steady
      /\ \A p \in Orders : order'[p].status = order[p].status \/ order'[p].status = "assigned"
  <2>1. CASE order' = order
    BY <1>1, <1>2, <2>1, UnchangedIsSteady DEF Typed
  <2>2. CASE Writes(o, "assigned")
    <3>1. Steady
      BY <1>1, <1>2, <2>2, WritesKeepsRows DEF Steady
    <3>2. /\ order' \in [Orders -> {NoOrder} \cup LiveOrders]
          /\ \A p \in Orders : order'[p] = order[p] \/ order'[p].status = "assigned"
      BY <1>2, <2>2, WritesKeepsRows
    <3> QED
      BY <3>1, <3>2
  <2> QED
    BY <1>4, <2>1, <2>2
<1>6. /\ clerk'[c] = Idle
      /\ \A d \in Clerks \ {c} : clerk'[d] = clerk[d]
  BY <1>1, <1>2
<1>7. Typed'
  BY <1>1, <1>2, <1>5 DEF Typed, Idle
<1>8. ClerkFits(c)'
  BY <1>6 DEF ClerkFits
<1>9. \A d \in Clerks \ {c} : ClerkFits(d)'
  BY <1>5, <1>6, SteadyClerks DEF WorkInv
<1>10. \A j \in Jobs : JobFits(j)'
  BY <1>1, <1>5, OthersFit DEF WorkInv
<1>11. StatusComesFromAnEvaluation'
  BY <1>1, <1>5, StatusKept DEF WorkInv
<1> QED
  BY <1>7, <1>8, <1>9, <1>10, <1>11 DEF WorkInv

\* A step of one job that leaves the orders and evaluations alone.
LEMMA JobOnly ==
  ASSUME WorkInv, NEW j \in Jobs, NEW row \in JobRows,
         job' = [job EXCEPT ![j] = row], UNCHANGED <<order, clerk, evaluation>>,
         JobFits(j)'
  PROVE  WorkInv'
<1>1. Typed /\ job \in [Jobs -> JobRows]
  BY DEF WorkInv, Typed
<1>2. Typed'
  BY <1>1 DEF Typed
<1>3. Steady
  BY UnchangedIsSteady
<1>4. \A c \in Clerks : ClerkFits(c)'
  BY <1>3, SteadyClerks DEF WorkInv
<1>5. \A i \in Jobs \ {j} : job'[i] = job[i] /\ evaluation'[i] = evaluation[i]
  BY <1>1
<1>6. \A i \in Jobs \ {j} : JobFits(i)'
  BY <1>3, <1>5, OthersFit DEF WorkInv
<1>7. StatusComesFromAnEvaluation'
  BY <1>3, StatusKept DEF WorkInv
<1> QED
  BY <1>2, <1>4, <1>6, <1>7 DEF WorkInv

LEMMA StatusesOfOrders == Begun \cup {"none", "draft"} \subseteq OrderStatuses
  BY DEF Begun, OrderStatuses, Transitions

LEMMA BeginUploadKeeps ==
  ASSUME WorkInv, NEW j \in Jobs, NEW o \in Orders, NEW capture \in Captures,
         BeginUpload(j, o, capture)
  PROVE  WorkInv'
<1> DEFINE row == [NoJob EXCEPT !.phase = "uploading", !.order = o,
                                !.seen = order[o].status, !.capture = capture,
                                !.spatial = LocationJudged(o, capture)]
<1>1. /\ job[j] = NoJob
      /\ order[o].status \in {"assigned", "remediating", "evidence_uploaded", "analyzing"}
      /\ job' = [job EXCEPT ![j] = row]
      /\ UNCHANGED <<order, clerk, evaluation>>
  BY Zenon DEF BeginUpload, AcceptsEvidence
<1>2. order[o] \in {NoOrder} \cup LiveOrders /\ job \in [Jobs -> JobRows] /\ JobFits(j)
  BY DEF WorkInv, Typed
<1>3. order[o] \in LiveOrders
  BY <1>1, <1>2 DEF NoOrder
<1>4. order[o].status \in {"assigned", "evidence_uploaded"}
  BY <1>1, <1>3 DEF LiveOrders, Rows, Begun
<1>5. order[o] \in BegunOrders
  BY <1>3, <1>4, RowsDiffer
<1>6. LocationJudged(o, capture) \in {"passed", "failed", "unavailable"}
  BY SpatialAnswers DEF LocationJudged
<1>7. /\ row \in JobRows
      /\ row.phase = "uploading" /\ row.order = o /\ row.seen = order[o].status
      /\ row.capture = capture /\ row.spatial = LocationJudged(o, capture)
  <2>1. NoJob \in JobRows
    BY DEF NoJob, JobRows, Phases, OrderStatuses, Transitions
  <2>2. /\ order[o].status \in OrderStatuses
        /\ LocationJudged(o, capture) \in {"none", "passed", "failed", "unavailable"}
        /\ "uploading" \in Phases
    BY <1>4, <1>6, StatusesOfOrders DEF Begun, Phases
  <2> QED
    BY <2>1, <2>2 DEF JobRows
<1> HIDE DEF row
<1>8. job'[j] = row
  BY <1>1, <1>2
<1>9. evaluation[j] = Absent
  BY <1>1, <1>2 DEF JobFits, NoJob
<1>10. Located(j)'
  BY <1>1, <1>5, <1>7, <1>8 DEF Located, LocationJudged
<1>11. JobFits(j)'
  BY <1>1, <1>4, <1>7, <1>8, <1>9, <1>10 DEF JobFits, Judged
<1> QED
  BY <1>1, <1>7, <1>11, JobOnly

LEMMA RefuseUploadKeeps ==
  ASSUME WorkInv, NEW j \in Jobs, RefuseUpload(j)
  PROVE  WorkInv'
<1>1. /\ job[j].phase = "uploading"
      /\ job' = [job EXCEPT ![j] = NoJob]
      /\ UNCHANGED <<order, clerk, evaluation>>
  BY DEF RefuseUpload
<1>2. job \in [Jobs -> JobRows] /\ JobFits(j)
  BY DEF WorkInv, Typed
<1>3. NoJob \in JobRows
  BY DEF NoJob, JobRows, Phases, OrderStatuses, Transitions
<1>4. job'[j] = NoJob
  BY <1>1, <1>2
<1>5. JobFits(j)'
  BY <1>1, <1>2, <1>4 DEF JobFits, NoJob, Judged
<1> QED
  BY <1>1, <1>3, <1>5, JobOnly

\* What a step of the analysis may count on.
LEMMA JobFacts ==
  ASSUME WorkInv, NEW j \in Jobs, job[j].phase # "none"
  PROVE  /\ job \in [Jobs -> JobRows] /\ job[j] \in JobRows
         /\ JobFits(j) /\ Located(j)
         /\ order[job[j].order] \in LiveOrders
         /\ job[j].spatial \in {"passed", "failed", "unavailable"}
<1>1. job \in [Jobs -> JobRows] /\ JobFits(j)
  BY DEF WorkInv, Typed
<1>2. Located(j)
  BY <1>1 DEF JobFits
<1> QED
  BY <1>1, <1>2, RowsDiffer, SpatialAnswers DEF Located

LEMMA EvaluateKeeps ==
  ASSUME WorkInv, NEW j \in Jobs, NEW observed \in Observations, Evaluate(j, observed)
  PROVE  WorkInv'
<1> DEFINE verdict == Verdict(order[job[j].order].rules, observed, job[j].spatial)
           row == [job[j] EXCEPT !.phase = "evaluated", !.observed = observed,
                                 !.verdict = verdict]
<1>1. job[j].phase = "queued" /\ UNCHANGED <<order, clerk, evaluation>>
  BY DEF Evaluate
<1>2. job[j] \in JobRows /\ job \in [Jobs -> JobRows] /\ JobFits(j) /\ Located(j)
  BY <1>1, JobFacts
<1>3. job' = [job EXCEPT ![j] = row]
  BY Zenon DEF Evaluate
<1>4. verdict \in Verdicts
  BY VerdictAnswers
<1> HIDE DEF verdict
<1>5. row \in JobRows
  BY <1>2, <1>4 DEF JobRows, Phases
<1>6. /\ job'[j] = row
      /\ row.phase = "evaluated" /\ row.observed = observed /\ row.verdict = verdict
      /\ row.order = job[j].order /\ row.capture = job[j].capture
      /\ row.spatial = job[j].spatial
  BY <1>2, <1>3 DEF JobRows
<1>7. Located(j)'
  BY <1>1, <1>2, <1>6 DEF Located
<1>8. VerdictFits(j)'
  BY <1>1, <1>6 DEF VerdictFits, verdict
<1>9. JobFits(j)'
  BY <1>1, <1>2, <1>6, <1>7, <1>8 DEF JobFits
<1> QED
  BY <1>1, <1>3, <1>5, <1>9, JobOnly

LEMMA AnalysisFailsKeeps ==
  ASSUME WorkInv, NEW j \in Jobs, AnalysisFails(j)
  PROVE  WorkInv'
<1> DEFINE row == [job[j] EXCEPT !.phase = "failed"]
<1>1. /\ job[j].phase = "queued" /\ UNCHANGED <<order, clerk, evaluation>>
      /\ job' = [job EXCEPT ![j] = row]
  BY DEF AnalysisFails
<1>2. job[j] \in JobRows /\ job \in [Jobs -> JobRows] /\ JobFits(j) /\ Located(j)
  BY <1>1, JobFacts
<1>3. row \in JobRows
  BY <1>2 DEF JobRows, Phases
<1>4. /\ job'[j] = row /\ row.phase = "failed"
      /\ row.order = job[j].order /\ row.capture = job[j].capture
      /\ row.spatial = job[j].spatial
  BY <1>1, <1>2 DEF JobRows
<1>5. Located(j)'
  BY <1>1, <1>2, <1>4 DEF Located
<1>6. JobFits(j)'
  BY <1>1, <1>2, <1>4, <1>5 DEF JobFits, Judged
<1> QED
  BY <1>1, <1>3, <1>6, JobOnly

\* The order may have been moved by others before the completion reads it; it
\* shows then what they left, and a verdict is that of another evaluation.
LEMMA BeginCompletionKeeps ==
  ASSUME WorkInv, NEW j \in Jobs, BeginCompletion(j)
  PROVE  WorkInv'
<1> DEFINE o == job[j].order
           row == [job[j] EXCEPT !.phase = "completing", !.seen = order[o].status]
<1>1. /\ job[j].phase = "evaluated" /\ UNCHANGED <<order, clerk, evaluation>>
      /\ job' = [job EXCEPT ![j] = row]
  BY DEF BeginCompletion
<1>2. job[j] \in JobRows /\ job \in [Jobs -> JobRows] /\ JobFits(j) /\ Located(j)
  BY <1>1, JobFacts
<1>3. o \in Orders /\ order[o] \in BegunOrders
  BY <1>2 DEF Located
<1>4. order[o].status \in Begun
  BY <1>3 DEF BegunOrders, Rows
<1>5. row \in JobRows
  BY <1>2, <1>4, StatusesOfOrders DEF JobRows, Phases
<1>6. /\ job'[j] = row /\ row.phase = "completing" /\ row.seen = order[o].status
      /\ row.order = job[j].order /\ row.capture = job[j].capture
      /\ row.spatial = job[j].spatial /\ row.verdict = job[j].verdict
      /\ row.observed = job[j].observed
  BY <1>1, <1>2 DEF JobRows
<1>7. Located(j)'
  BY <1>1, <1>2, <1>6 DEF Located
<1>8. VerdictFits(j)'
  BY <1>1, <1>2, <1>6 DEF VerdictFits, JobFits, Judged
<1>9. evaluation[j] = Absent
  BY <1>1, <1>2 DEF JobFits
<1>10. ASSUME NEW i \in Evaluated(o), order[o].status = StatusOfVerdict(evaluation[i].verdict)
       PROVE  Rival(j)'
  <2>1. i \in Jobs \ {j} /\ evaluation[i] # Absent /\ evaluation[i].order = o
    BY <1>9, <1>10 DEF Evaluated
  <2> QED
    BY <1>1, <1>6, <1>10, <2>1 DEF Rival
<1>11. order[o].status = "evidence_uploaded" \/ Rival(j)'
  <2>1. CASE order[o].status = "deviation"
    <3>1. PICK i \in Evaluated(o) : evaluation[i].verdict = "deviation_detected"
      BY <1>3, <2>1 DEF WorkInv, StatusComesFromAnEvaluation
    <3> QED
      BY <1>10, <2>1, <3>1 DEF StatusOfVerdict
  <2>2. CASE order[o].status = "needs_review"
    <3>1. PICK i \in Evaluated(o) : evaluation[i].verdict # "deviation_detected"
      BY <1>3, <2>2 DEF WorkInv, StatusComesFromAnEvaluation
    <3> QED
      BY <1>10, <2>2, <3>1 DEF StatusOfVerdict
  <2>3. CASE order[o].status = "assigned"
    BY <1>6, <2>3 DEF Rival
  <2> QED
    BY <1>4, <2>1, <2>2, <2>3 DEF Begun
<1>12. JobFits(j)'
  BY <1>1, <1>6, <1>7, <1>8, <1>9, <1>11 DEF JobFits
<1> QED
  BY <1>1, <1>5, <1>12, JobOnly

\* A completion that read uploaded evidence is not refused.
LEMMA UploadedIsAllowed ==
  ASSUME NEW verdict
  PROVE  CompletionAllowed("evidence_uploaded", StatusOfVerdict(verdict))
  BY DEF CompletionAllowed, StatusOfVerdict, CompletionEntries, CompletionTargets,
         MayMove, Transitions

LEMMA RefusalKeeps ==
  ASSUME WorkInv, NEW j \in Jobs, RefuseCompletion(j) \/ RecordRefusal(j)
  PROVE  WorkInv'
<1> DEFINE phase == IF job[j].phase = "completing" THEN "refused" ELSE "transition_failed"
           row == [job[j] EXCEPT !.phase = phase]
<1>1. /\ job[j].phase \in {"completing", "refused"}
      /\ UNCHANGED <<order, clerk, evaluation>>
      /\ job' = [job EXCEPT ![j] = row]
      /\ job[j].phase = "completing" =>
           ~ CompletionAllowed(job[j].seen, StatusOfVerdict(job[j].verdict))
  BY DEF RefuseCompletion, RecordRefusal
<1>2. job[j] \in JobRows /\ job \in [Jobs -> JobRows] /\ JobFits(j) /\ Located(j)
  BY <1>1, JobFacts
<1>3. phase \in {"refused", "transition_failed"}
  OBVIOUS
<1> HIDE DEF phase
<1>4. row \in JobRows
  BY <1>2, <1>3 DEF JobRows, Phases
<1>5. /\ job'[j] = row /\ row.phase = phase /\ row.seen = job[j].seen
      /\ row.order = job[j].order /\ row.capture = job[j].capture
      /\ row.spatial = job[j].spatial /\ row.verdict = job[j].verdict
      /\ row.observed = job[j].observed
  BY <1>1, <1>2 DEF JobRows
<1>6. Located(j)'
  BY <1>1, <1>2, <1>5 DEF Located
<1>7. VerdictFits(j)'
  BY <1>1, <1>2, <1>5 DEF VerdictFits, JobFits, Judged
<1>8. Rival(j)
  BY <1>1, <1>2, UploadedIsAllowed DEF JobFits
<1>9. Rival(j)'
  BY <1>1, <1>5, <1>8 DEF Rival
<1>10. JobFits(j)'
  BY <1>1, <1>2, <1>3, <1>5, <1>6, <1>7, <1>9 DEF JobFits
<1> QED
  BY <1>1, <1>4, <1>10, JobOnly

LEMMA CommitUploadKeeps ==
  ASSUME WorkInv, NEW j \in Jobs, CommitUpload(j)
  PROVE  WorkInv'
<1> DEFINE o == job[j].order
           row == [job[j] EXCEPT !.phase = "queued", !.seen = "none"]
<1>1. /\ job[j].phase = "uploading" /\ UNCHANGED <<clerk, evaluation>>
      /\ job' = [job EXCEPT ![j] = row]
      /\ order' = order \/ order' = [order EXCEPT ![o].status = "evidence_uploaded"]
  BY DEF CommitUpload
<1>2. /\ job[j] \in JobRows /\ job \in [Jobs -> JobRows] /\ JobFits(j) /\ Located(j)
      /\ order[o] \in LiveOrders /\ Typed
  BY <1>1, JobFacts DEF WorkInv
<1>3. o \in Orders /\ order[o] \in BegunOrders
  BY <1>2 DEF Located
<1>4. order' = order \/ Writes(o, "evidence_uploaded")
  BY <1>1, <1>2, <1>3 DEF Writes, Begun
<1>5. /\ order' \in [Orders -> {NoOrder} \cup LiveOrders]
      /\ Steady
      /\ \A p \in Orders : order'[p].status = order[p].status
                           \/ order'[p].status = "evidence_uploaded"
  <2>1. CASE order' = order
    BY <1>1, <1>2, <2>1, UnchangedIsSteady DEF Typed
  <2>2. CASE Writes(o, "evidence_uploaded")
    <3>1. Steady
      BY <1>1, <1>2, <2>2, WritesKeepsRows DEF Steady
    <3>2. /\ order' \in [Orders -> {NoOrder} \cup LiveOrders]
          /\ \A p \in Orders : order'[p] = order[p] \/ order'[p].status = "evidence_uploaded"
      BY <1>2, <2>2, WritesKeepsRows
    <3> QED
      BY <3>1, <3>2
  <2> QED
    BY <1>4, <2>1, <2>2
<1>6. /\ row \in JobRows
      /\ row.phase = "queued" /\ row.order = o /\ row.capture = job[j].capture
      /\ row.spatial = job[j].spatial
  BY <1>2, StatusesOfOrders DEF JobRows, Phases
<1> HIDE DEF row
<1>7. /\ job'[j] = row
      /\ \A i \in Jobs \ {j} : job'[i] = job[i] /\ evaluation'[i] = evaluation[i]
  BY <1>1, <1>2
<1>8. Typed'
  BY <1>1, <1>2, <1>5, <1>6 DEF Typed
<1>9. \A c \in Clerks : ClerkFits(c)'
  BY <1>1, <1>5, SteadyClerks DEF WorkInv
<1>10. Located(j)'
  BY <1>2, <1>3, <1>5, <1>6, <1>7 DEF Located, Steady
<1>11. JobFits(j)'
  BY <1>1, <1>2, <1>6, <1>7, <1>10 DEF JobFits, Judged
<1>12. \A i \in Jobs \ {j} : JobFits(i)'
  BY <1>5, <1>7, OthersFit DEF WorkInv
<1>13. StatusComesFromAnEvaluation'
  BY <1>1, <1>5, StatusKept DEF WorkInv
<1> QED
  BY <1>8, <1>9, <1>11, <1>12, <1>13 DEF WorkInv

\* The verdict is written over whatever the order shows by now; the evaluation
\* it comes from is stored with it.
LEMMA CommitCompletionKeeps ==
  ASSUME WorkInv, NEW j \in Jobs, CommitCompletion(j)
  PROVE  WorkInv'
<1> DEFINE o == job[j].order
           target == StatusOfVerdict(job[j].verdict)
           row == [job[j] EXCEPT !.phase = "needs_review", !.seen = "none"]
<1>1. /\ job[j].phase = "completing" /\ UNCHANGED clerk
      /\ job' = [job EXCEPT ![j] = row]
      /\ order' = [order EXCEPT ![o].status = target]
      /\ evaluation' = [evaluation EXCEPT ![j] = Stored(j)]
  BY DEF CommitCompletion, Stored
<1>2. /\ job[j] \in JobRows /\ job \in [Jobs -> JobRows] /\ JobFits(j) /\ Located(j)
      /\ order[o] \in LiveOrders /\ Typed
  BY <1>1, JobFacts DEF WorkInv
<1>3. o \in Orders /\ order[o] \in BegunOrders
  BY <1>2 DEF Located
<1>4. /\ target \in {"deviation", "needs_review"}
      /\ target = "deviation" <=> job[j].verdict = "deviation_detected"
  BY DEF StatusOfVerdict
<1> HIDE DEF target
<1>5. Writes(o, target)
  BY <1>1, <1>2, <1>3, <1>4 DEF Writes, Begun
<1>6. /\ row \in JobRows
      /\ row.phase = "needs_review" /\ row.order = o /\ row.capture = job[j].capture
      /\ row.spatial = job[j].spatial /\ row.verdict = job[j].verdict
      /\ row.observed = job[j].observed
  BY <1>2, StatusesOfOrders DEF JobRows, Phases
<1> HIDE DEF row
<1>7. evaluation[j] = Absent /\ evaluation = [i \in Jobs |-> evaluation[i]]
  BY <1>1, <1>2 DEF JobFits, Typed
<1>8. /\ job'[j] = row
      /\ evaluation'[j] = Stored(j) /\ evaluation' = [i \in Jobs |-> evaluation'[i]]
      /\ \A i \in Jobs \ {j} : job'[i] = job[i] /\ evaluation'[i] = evaluation[i]
  BY <1>1, <1>2, <1>7
<1>9. /\ order' \in [Orders -> {NoOrder} \cup LiveOrders]
      /\ \A p \in Orders \ {o} : order'[p] = order[p]
      /\ order'[o].status = target
  BY <1>2, <1>5, WritesKeepsRows
<1>10. Steady
  BY <1>2, <1>5, <1>7, <1>8, WritesKeepsRows DEF Steady
<1>11. Stored(j) # Absent
  <2>1. "order" \in DOMAIN Stored(j)
    BY DEF Stored
  <2>2. "order" \notin DOMAIN Absent
    BY DEF Absent
  <2> QED
    BY <2>1, <2>2
<1>12. Typed'
  BY <1>1, <1>2, <1>6, <1>8, <1>9 DEF Typed
<1>13. \A c \in Clerks : ClerkFits(c)'
  BY <1>1, <1>10, SteadyClerks DEF WorkInv
<1>14. Located(j)'
  BY <1>2, <1>3, <1>6, <1>8, <1>10 DEF Located, Steady
<1>15. VerdictFits(j)' /\ Stored(j)' = Stored(j)
  BY <1>1, <1>2, <1>3, <1>6, <1>8, <1>10 DEF VerdictFits, JobFits, Judged, Stored, Steady
<1>16. JobFits(j)'
  BY <1>6, <1>8, <1>11, <1>14, <1>15 DEF JobFits
<1>17. \A i \in Jobs \ {j} : JobFits(i)'
  BY <1>8, <1>10, OthersFit DEF WorkInv
<1>18. StatusComesFromAnEvaluation'
  <2>1. Stored(j).order = o /\ Stored(j).verdict = job[j].verdict
    BY DEF Stored
  <2> PICK q \in Orders : q = o
    BY <1>3
  <2>2. j \in Evaluated(q)' /\ evaluation'[j].verdict = job[j].verdict
    BY <1>8, <1>11, <2>1 DEF Evaluated
  <2>3. \A p \in Orders : \A i \in Evaluated(p) :
          i \in Evaluated(p)' /\ evaluation'[i] = evaluation[i]
    BY <1>10 DEF Evaluated, Steady
  <2>4. SUFFICES ASSUME NEW p \in Orders
        PROVE  /\ order'[p].status = "deviation" =>
                    \E i \in Evaluated(p)' : evaluation'[i].verdict = "deviation_detected"
               /\ order'[p].status = "needs_review" =>
                    \E i \in Evaluated(p)' : evaluation'[i].verdict # "deviation_detected"
               /\ order'[p].status \notin {"analyzing", "approved", "remediating", "closed"}
    BY DEF StatusComesFromAnEvaluation
  <2>5. CASE p = q
    BY <1>4, <1>9, <2>2, <2>5
  <2>6. CASE p # q
    BY <1>9, <2>3, <2>6 DEF WorkInv, StatusComesFromAnEvaluation
  <2> QED
    BY <2>5, <2>6
<1> QED
  BY <1>12, <1>13, <1>16, <1>17, <1>18 DEF WorkInv

LEMMA NextWorkInv == WorkInv /\ [Next]_vars => WorkInv'
<1> SUFFICES ASSUME WorkInv, [Next]_vars PROVE WorkInv'
  OBVIOUS
<1>1. ASSUME NEW o \in Orders, NEW design \in Designs, NEW policy \in Policies,
             Create(o, design, policy)
      PROVE  WorkInv'
  BY <1>1, CreateKeeps
<1>2. ASSUME NEW c \in Clerks, ClerkStep(c)
      PROVE  WorkInv'
  BY <1>2, BeginAssignKeeps, CommitAssignKeeps DEF ClerkStep
<1>3. ASSUME NEW j \in Jobs, NEW o \in Orders, NEW capture \in Captures,
             BeginUpload(j, o, capture)
      PROVE  WorkInv'
  BY <1>3, BeginUploadKeeps
<1>4. ASSUME NEW j \in Jobs, CommitUpload(j)
      PROVE  WorkInv'
  BY <1>4, CommitUploadKeeps
<1>5. ASSUME NEW j \in Jobs, RefuseUpload(j)
      PROVE  WorkInv'
  BY <1>5, RefuseUploadKeeps
<1>6. ASSUME NEW j \in Jobs, WorkerStep(j)
      PROVE  WorkInv'
  <2>1. ASSUME NEW observed \in Observations, Evaluate(j, observed)
        PROVE  WorkInv'
    BY <2>1, EvaluateKeeps
  <2>2. CASE AnalysisFails(j)
    BY <2>2, AnalysisFailsKeeps
  <2>3. CASE BeginCompletion(j)
    BY <2>3, BeginCompletionKeeps
  <2>4. CASE CommitCompletion(j)
    BY <2>4, CommitCompletionKeeps
  <2>5. CASE RefuseCompletion(j) \/ RecordRefusal(j)
    BY <2>5, RefusalKeeps
  <2> QED
    BY <1>6, <2>1, <2>2, <2>3, <2>4, <2>5 DEF WorkerStep
<1>7. CASE UNCHANGED vars
  <2>1. UNCHANGED <<order, job, clerk, evaluation>>
    BY <1>7 DEF vars
  <2>2. Steady
    BY <2>1, UnchangedIsSteady
  <2>3. Typed'
    BY <2>1 DEF WorkInv, Typed
  <2>4. (\A c \in Clerks : ClerkFits(c)') /\ \A j \in Jobs : JobFits(j)'
    BY <2>1, <2>2, SteadyClerks, OthersFit DEF WorkInv
  <2>5. StatusComesFromAnEvaluation'
    BY <2>1, <2>2, StatusKept DEF WorkInv
  <2> QED
    BY <2>3, <2>4, <2>5 DEF WorkInv
<1> QED
  BY <1>1, <1>2, <1>3, <1>4, <1>5, <1>6, <1>7 DEF Next

\* The strengthened invariant: rows, sessions, jobs and stored evaluations fit
\* one another in every state of the routes and the worker.
THEOREM WorkInvariant == Spec => []WorkInv
  BY InitWorkInv, NextWorkInv, PTL DEF Spec

-----------------------------------------------------------------------------
(* What it gives                                                            *)

\* A compliant evaluation was earned by the observation it stores, under the
\* frozen rules, near the frozen geometry (compliance.py and spatial.py as the
\* completion of an attempt uses them).
LEMMA EvaluationsAreEarned == WorkInv => CompliantIsEarned
<1> SUFFICES ASSUME WorkInv, NEW j \in Jobs, evaluation[j] # Absent,
                    evaluation[j].verdict = "compliant"
    PROVE  LET e == evaluation[j]
               frozen == order[e.order]
           IN  /\ ~ e.observed.reason
               /\ \A rule \in e.expected :
                      /\ e.observed.fields[rule.field] # {}
                      /\ e.observed.fields[rule.field] \subseteq rule.accepts
                      /\ rule.field = "depth_m" => e.observed.calibrated
               /\ frozen.rules.ignoreSpatial \/
                  /\ job[j].capture.position # {}
                  /\ \A a \in job[j].capture.accuracy :
                         a > 0 /\ a <= frozen.policy.threshold
                  /\ \A p \in job[j].capture.position :
                         \E i \in DOMAIN frozen.geometry.vertices :
                             \/ Near(p, frozen.geometry.vertices[i], frozen.policy.tolerance)
                             \/ /\ frozen.geometry.type # "Point"
                                /\ \E k \in DOMAIN frozen.geometry.vertices :
                                       /\ frozen.geometry.vertices[i] <= p
                                       /\ p <= frozen.geometry.vertices[k]
  BY DEF CompliantIsEarned, Near
<1> DEFINE o == job[j].order
<1>1. JobFits(j) /\ job[j].phase = "needs_review" /\ evaluation[j] = Stored(j)
  BY DEF WorkInv, JobFits
<1>2. Located(j) /\ VerdictFits(j) /\ job[j].spatial \in {"passed", "failed", "unavailable"}
  BY <1>1, JobFacts DEF JobFits, Judged
<1>3. /\ evaluation[j].order = o /\ evaluation[j].verdict = job[j].verdict
      /\ evaluation[j].observed = job[j].observed
      /\ evaluation[j].expected = RulesMet(order[o].rules)
  BY <1>1 DEF Stored
<1>4. Verdict(order[o].rules, job[j].observed, job[j].spatial) = "compliant"
  BY <1>2, <1>3 DEF VerdictFits
<1>5. /\ ~ job[j].observed.reason
      /\ \A rule \in RulesMet(order[o].rules) :
           /\ job[j].observed.fields[rule.field] # {}
           /\ job[j].observed.fields[rule.field] \subseteq rule.accepts
           /\ rule.field = "depth_m" => job[j].observed.calibrated
      /\ order[o].rules.ignoreSpatial \/ job[j].spatial = "passed"
  BY <1>2, <1>4, CompliantMeans
<1>6. /\ order[o].policy \in Policies /\ order[o].geometry.vertices \in Seq(Int)
      /\ job[j].capture \in Captures
      /\ job[j].spatial = SpatialCheck(job[j].capture, order[o].geometry, order[o].policy)
  BY <1>2, ConstantsAssumption DEF Located, BegunOrders, Rows
<1>7. job[j].spatial = "passed" =>
        /\ job[j].capture.position # {}
        /\ \A a \in job[j].capture.accuracy : a > 0 /\ a <= order[o].policy.threshold
        /\ \A p \in job[j].capture.position :
             \E i \in DOMAIN order[o].geometry.vertices :
               \/ Near(p, order[o].geometry.vertices[i], order[o].policy.tolerance)
               \/ /\ order[o].geometry.type # "Point"
                  /\ \E k \in DOMAIN order[o].geometry.vertices :
                       /\ order[o].geometry.vertices[i] <= p
                       /\ p <= order[o].geometry.vertices[k]
  BY <1>6, PassedIsNear
<1> QED
  BY <1>3, <1>5, <1>7

LEMMA RowsHaveTheirTypes == WorkInv => TypeOK
<1> SUFFICES ASSUME WorkInv PROVE TypeOK
  OBVIOUS
<1>1. \A o \in Orders : order[o] = NoOrder \/ order[o].status \in OrderStatuses \ {"none"}
  <2>1. \A x \in LiveOrders : x.status \in Begun \cup {"draft"}
    BY DEF LiveOrders, Rows
  <2>2. Begun \cup {"draft"} \subseteq OrderStatuses \ {"none"}
    BY StatusesOfOrders DEF Begun
  <2> QED
    BY <2>1, <2>2 DEF WorkInv, Typed
<1>2. \A j \in Jobs : /\ job[j].phase \in Phases
                      /\ job[j].seen \in OrderStatuses
                      /\ job[j].verdict \in Verdicts \cup {"none"}
                      /\ job[j].spatial \in {"none", "passed", "failed", "unavailable"}
  BY DEF WorkInv, Typed, JobRows
<1>3. \A c \in Clerks : clerk[c] = Idle \/ clerk[c].order \in Orders
  BY DEF WorkInv, ClerkFits
<1>4. \A j \in Jobs : evaluation[j] = Absent \/ evaluation[j].verdict \in Verdicts
  <2> SUFFICES ASSUME NEW j \in Jobs, evaluation[j] # Absent
      PROVE  evaluation[j].verdict \in Verdicts
    OBVIOUS
  <2>1. evaluation[j] = Stored(j) /\ VerdictFits(j)
    BY DEF WorkInv, JobFits, Judged
  <2>2. evaluation[j].verdict = job[j].verdict
    BY <2>1 DEF Stored
  <2> QED
    BY <2>1, <2>2, VerdictAnswers DEF VerdictFits
<1> QED
  BY <1>1, <1>2, <1>3, <1>4 DEF TypeOK

\* What an order and its evaluations say is the outcome of one complete
\* judgement, however uploads, assignments and completions overlap.
THEOREM VerdictsEarned == Spec => []VerdictsAreEarned
<1>1. WorkInv => EvaluatedExactlyOnSuccess
  BY DEF WorkInv, JobFits, EvaluatedExactlyOnSuccess
<1>2. WorkInv => VerdictsAreEarned
  BY <1>1, EvaluationsAreEarned, RowsHaveTheirTypes DEF VerdictsAreEarned, WorkInv
<1> QED
  BY <1>2, WorkInvariant, PTL

\* A result is refused only because of somebody else: another upload's verdict
\* or an assignment written over the evidence.
THEOREM RefusalsHaveRivals == Spec => []RefusalNeedsARival
<1>1. WorkInv => RefusalNeedsARival
  BY DEF WorkInv, JobFits, Rival, RefusalNeedsARival, Evaluated
<1> QED
  BY <1>1, WorkInvariant, PTL

\* The routes and the completion overwrite a deviation only by a session that
\* had read the order before it became one.
THEOREM DeviationsAreOverwrittenByOpenSessions ==
  Spec => OnlyOpenSessionsOverwriteADeviation
<1>1. ASSUME WorkInv, [Next]_vars, NEW o \in Orders,
             order[o].status = "deviation", order'[o].status # "deviation"
      PROVE  OpenedBefore(o)
  <2>1. /\ order \in [Orders -> {NoOrder} \cup LiveOrders]
        /\ order' # order
    BY <1>1 DEF WorkInv, Typed
  <2>2. ASSUME NEW p \in Orders, NEW design \in Designs, NEW policy \in Policies,
               Create(p, design, policy)
        PROVE  OpenedBefore(o)
    <3>1. order[p] = NoOrder /\ order' = [order EXCEPT ![p] = FreezeOrder(design, policy)]
      BY <2>2 DEF Create
    <3>2. p # o
      BY <1>1, <3>1 DEF NoOrder
    <3> QED
      BY <1>1, <2>1, <3>1, <3>2
  <2>3. ASSUME NEW c \in Clerks, ClerkStep(c)
        PROVE  OpenedBefore(o)
    <3>1. CommitAssign(c)
      BY <2>1, <2>3 DEF ClerkStep, BeginAssign
    <3>2. clerk[c] # Idle /\ order' = [order EXCEPT ![clerk[c].order].status = "assigned"]
      BY <2>1, <3>1 DEF CommitAssign
    <3>3. clerk[c].order = o
      BY <1>1, <2>1, <3>2
    <3>4. clerk[c].seen # "deviation"
      BY <1>1, <3>2 DEF WorkInv, ClerkFits
    <3> QED
      BY <3>3, <3>4 DEF OpenedBefore
  <2>4. ASSUME NEW j \in Jobs, CommitUpload(j)
        PROVE  OpenedBefore(o)
    <3>1. /\ job[j].phase = "uploading" /\ job[j].seen \in {"assigned", "remediating"}
          /\ order' = [order EXCEPT ![job[j].order].status = "evidence_uploaded"]
      BY <2>1, <2>4 DEF CommitUpload
    <3>2. job[j].order = o
      BY <1>1, <2>1, <3>1
    <3> QED
      BY <3>1, <3>2 DEF OpenedBefore
  <2>5. ASSUME NEW j \in Jobs, WorkerStep(j)
        PROVE  OpenedBefore(o)
    <3>1. CommitCompletion(j)
      BY <2>1, <2>5 DEF WorkerStep, Evaluate, AnalysisFails, BeginCompletion,
                        RefuseCompletion, RecordRefusal
    <3>2. /\ job[j].phase = "completing"
          /\ job[j].seen \in CompletionEntries
          /\ order' = [order EXCEPT ![job[j].order].status = StatusOfVerdict(job[j].verdict)]
      BY <3>1 DEF CommitCompletion, CompletionAllowed
    <3>3. job[j].order = o
      BY <1>1, <2>1, <3>2
    <3>4. job[j].seen # "deviation"
      BY <3>2 DEF CompletionEntries
    <3> QED
      BY <3>2, <3>3, <3>4 DEF OpenedBefore
  <2>6. ASSUME NEW j \in Jobs, (\E p \in Orders, capture \in Captures : BeginUpload(j, p, capture))
                               \/ RefuseUpload(j)
        PROVE  OpenedBefore(o)
    BY <2>1, <2>6 DEF BeginUpload, RefuseUpload
  <2>7. Next
    BY <1>1, <2>1 DEF vars
  <2> QED
    BY <2>2, <2>3, <2>4, <2>5, <2>6, <2>7 DEF Next
<1>2. WorkInv /\ [Next]_vars =>
        [\A o \in Orders : order[o].status = "deviation" /\ order'[o].status # "deviation"
             => OpenedBefore(o)]_vars
  BY <1>1
<1> QED
  BY <1>2, WorkInvariant, PTL DEF Spec, OnlyOpenSessionsOverwriteADeviation
=============================================================================
