---------------------------- MODULE MCWorkOrders ----------------------------
EXTENDS WorkOrders, TLC

Rule(field, kind, accepts) ==
    [field |-> field, nested |-> FALSE, kind |-> kind, wellFormed |-> TRUE,
     requiresCalibration |-> FALSE, accepts |-> accepts]
Nested(rule) == [rule EXCEPT !.nested = TRUE]

Count == Rule("visible_pipe_count", "operator", {"two"})
Depth == Rule("depth_m", "equals", {"one", "two"})
Quantity(accepts) == Nested(Rule("expected_quantity", "bare", accepts))
Line == [type |-> "LineString", vertices |-> <<0, 10>>]

\* One object with a count and a depth to meet, whose attributes overrule the
\* quantity it states; one that ignores the location; one that states its
\* rule under neither of the two keys.
MCDesigns == {
    [rules |-> [stated |-> "expected", ignoreSpatial |-> FALSE,
                expected |-> {Count, Depth, Quantity({"one"})}],
     geometry |-> Line, nestedMeasurements |-> TRUE, measured |-> {Quantity({"two"})}],
    [rules |-> [stated |-> "fields", expected |-> {Count}, ignoreSpatial |-> TRUE],
     geometry |-> Line, nestedMeasurements |-> FALSE, measured |-> {Quantity({"two"})}],
    [rules |-> [stated |-> "neither", expected |-> {Count}, ignoreSpatial |-> FALSE],
     geometry |-> Line, nestedMeasurements |-> FALSE, measured |-> {}]}

MCPolicies == {[tolerance |-> 5, threshold |-> 3]}
MCNumbers == {"one", "two"}

Position(p, accuracy) == [position |-> {p}, inRange |-> TRUE, accuracy |-> accuracy,
                          source |-> "device_gps", synthetic |-> FALSE]
\* On the line, at the last metre, one beyond it, with too weak a reading.
MCCaptures == {Position(4, {3}), Position(16, {1}), Position(4, {4})}

Seen(count, depth, calibrated) ==
    [fields |-> [visible_pipe_count |-> count, depth_m |-> depth, expected_quantity |-> {"two"},
                 frozen_from |-> {}],
     calibrated |-> calibrated, reason |-> FALSE]
MCObservations == {Seen({"two"}, {"two"}, TRUE), Seen({"one"}, {"one"}, TRUE),
                   Seen({"two"}, {"two"}, FALSE)}

Interchangeable == Permutations(Jobs)
=============================================================================
