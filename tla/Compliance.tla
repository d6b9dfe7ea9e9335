----------------------------- MODULE Compliance -----------------------------
(***************************************************************************)
(* The two server-side judgements of a work order: the location check of   *)
(* services/spatial.py and the rule engine of services/compliance.py.      *)
(* Both are pure, so they are operators.  An optional value is a set with  *)
(* at most one element: {} is Python's None.                               *)
(*                                                                         *)
(* Distances are measured along one line: a position is a number of        *)
(* metres and a geometry the positions of its vertices, so that the        *)
(* segments of a line or ring cover what lies between them.                *)
(***************************************************************************)
LOCAL INSTANCE Integers
LOCAL INSTANCE Sequences

CONSTANT Numbers         \* the observed values that are numbers (not bool)

Distances(p, vertices) ==
    {IF p >= vertices[i] THEN p - vertices[i] ELSE vertices[i] - p : i \in DOMAIN vertices}

Covers(vertices, p) ==
    \E i, j \in DOMAIN vertices : vertices[i] <= p /\ p <= vertices[j]

\* A point is as far as itself; a line or a ring is at no distance from what
\* its segments cover, and otherwise as far as its nearest vertex.
Distance(p, geometry) ==
    IF geometry.type # "Point" /\ Covers(geometry.vertices, p)
    THEN 0
    ELSE CHOOSE d \in Distances(p, geometry.vertices) :
             \A e \in Distances(p, geometry.vertices) : d <= e

\* SpatialError otherwise: a line needs two positions, a ring three.
Measurable(geometry) ==
    \/ geometry.type = "Point" /\ Len(geometry.vertices) >= 1
    \/ geometry.type = "LineString" /\ Len(geometry.vertices) >= 2
    \/ geometry.type = "Polygon" /\ Len(geometry.vertices) >= 3

Synthetic(capture) == capture.synthetic \/ capture.source = "synthetic_demo"

\* The quality gate: a reading must be positive and within the frozen
\* threshold; only a synthetic position that is no device reading goes without.
AccuracyAccepted(capture, threshold) ==
    /\ \A a \in capture.accuracy : 0 < a /\ a <= threshold
    /\ capture.accuracy = {} => Synthetic(capture) /\ capture.source # "device_gps"

(* Mutant: a weaker reading widens the radius it is accepted in. *)
SpatialCheckWidened(capture, geometry, policy) ==
    IF \/ capture.position = {}
       \/ ~ capture.inRange
       \/ ~ AccuracyAccepted(capture, policy.threshold)
       \/ ~ Measurable(geometry)
    THEN "unavailable"
    ELSE IF \A p \in capture.position, a \in capture.accuracy :
                Distance(p, geometry) <= policy.tolerance + a
         THEN "passed"
         ELSE "failed"

SpatialCheck(capture, geometry, policy) ==
    IF \/ capture.position = {}
       \/ ~ capture.inRange
       \/ ~ AccuracyAccepted(capture, policy.threshold)
       \/ ~ Measurable(geometry)
    THEN "unavailable"
    ELSE IF \A p \in capture.position : Distance(p, geometry) <= policy.tolerance
         THEN "passed"
         ELSE "failed"

-----------------------------------------------------------------------------
\* DEPTH_LIKE_FIELDS, by the one the instances use.
DepthLike == {"depth_m"}

NeedsCalibration(rule) == rule.field \in DepthLike \/ rule.requiresCalibration

\* One expected field against what the analyzer saw.  "accepts" is the set of
\* values the rule's equals, one_of, operator or bare value is true of.
FieldStatus(rule, observed) ==
    LET value == observed.fields[rule.field]
    IN  IF value = {} \/ (NeedsCalibration(rule) /\ ~ observed.calibrated)
        THEN "insufficient_evidence"
        ELSE IF rule.kind = "operator" /\ ~ (rule.wellFormed /\ value \subseteq Numbers)
        THEN "needs_review"
        ELSE IF value \subseteq rule.accepts THEN "compliant" ELSE "deviation_detected"

\* What freezing adds to the snapshot (its version, its policy, its origin), by one of the five.
Bookkeeping == {[field |-> "frozen_from", nested |-> FALSE, kind |-> "bare", wellFormed |-> TRUE,
                 requiresCalibration |-> FALSE, accepts |-> {"work_order_create"}]}

\* A snapshot states its rules under "expected", else under "fields"; without
\* either, every entry of the frozen snapshot is taken for a rule.
RulesMet(rules) ==
    IF rules.stated = "neither" THEN rules.expected \cup Bookkeeping ELSE rules.expected

SpatialStatuses(rules, spatial) ==
    IF rules.ignoreSpatial THEN {}
    ELSE CASE spatial = "failed" -> {"needs_review"}
           [] spatial = "unavailable" -> {"insufficient_evidence"}
           [] OTHER -> {}

Statuses(rules, observed, spatial) ==
    {FieldStatus(rule, observed) : rule \in RulesMet(rules)}
        \cup SpatialStatuses(rules, spatial)
        \cup (IF observed.reason THEN {"insufficient_evidence"} ELSE {})

\* Missing evidence outweighs doubt, doubt outweighs a deviation, and rules
\* that say nothing leave the decision to a human.
Verdict(rules, observed, spatial) ==
    LET statuses == Statuses(rules, observed, spatial)
    IN  IF "insufficient_evidence" \in statuses THEN "insufficient_evidence"
        ELSE IF "needs_review" \in statuses THEN "needs_review"
        ELSE IF "deviation_detected" \in statuses THEN "deviation_detected"
        ELSE IF statuses = {} THEN "needs_review"
        ELSE "compliant"

Verdicts == {"compliant", "deviation_detected", "insufficient_evidence", "needs_review"}
=============================================================================
