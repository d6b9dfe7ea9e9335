---------------------------- MODULE EvaluationRules ----------------------------
(***************************************************************************)
(* The pure rules of an evaluation: that the splits of a dataset share     *)
(* neither a group nor an asset (evaluation/service.py), and what a set of *)
(* predictions scores (service.py, metrics.py).                            *)
(***************************************************************************)
EXTENDS Integers, FiniteSets, SequencesExt

-----------------------------------------------------------------------------
(* Split isolation.  A case has a split, a group for every group key or    *)
(* none, and the digests of its inputs.                                    *)

Singletons(cases) == [parent |-> [i \in DOMAIN cases |-> i], rank |-> [i \in DOMAIN cases |-> 0]]

\* The path is halved on the way, which changes no root.
Root(forest) ==
    LET root[i \in DOMAIN forest.parent] ==
            IF forest.parent[i] = i THEN i ELSE root[forest.parent[i]]
    IN  root

(* Mutant: the members themselves are joined, not their roots. *)
UnionOfMembers(forest, left, right) ==
    IF Root(forest)[left] = Root(forest)[right] THEN forest
    ELSE [forest EXCEPT !.parent[right] = left]

Union(forest, left, right) ==
    LET a == Root(forest)[left]
        b == Root(forest)[right]
        high == IF forest.rank[a] < forest.rank[b] THEN b ELSE a
        low == IF forest.rank[a] < forest.rank[b] THEN a ELSE b
    IN  IF a = b THEN forest
        ELSE [parent |-> [forest.parent EXCEPT ![low] = high],
              rank |-> [forest.rank EXCEPT ![high] = @ + (IF forest.rank[low] = @ THEN 1 ELSE 0)]]

\* The first case that has this one's value of the key.
FirstOfGroup(cases, key, i) ==
    CHOOSE j \in DOMAIN cases :
        /\ cases[j].groups[key] = cases[i].groups[key]
        /\ \A k \in 1 .. j - 1 : cases[k].groups[key] # cases[i].groups[key]

JoinByKey(cases, forest, key) ==
    LET Join(joined, i) == IF cases[i].groups[key] = {} THEN joined
                           ELSE Union(joined, FirstOfGroup(cases, key, i), i)
    IN  FoldLeftDomain(Join, forest, cases)

Components(cases, keys) ==
    LET JoinKey(forest, key) == JoinByKey(cases, forest, key)
    IN  Root(FoldLeft(JoinKey, Singletons(cases), keys))

FirstOwner(cases, asset) ==
    CHOOSE i \in DOMAIN cases :
        asset \in cases[i].assets /\ \A j \in 1 .. i - 1 : asset \notin cases[j].assets

SplitsIsolated(cases, keys) ==
    /\ \A k \in DOMAIN keys :
           keys[k] = "project_group_id" => \A i \in DOMAIN cases : cases[i].groups[keys[k]] # {}
    /\ LET component == Components(cases, keys) IN
           \A i, j \in DOMAIN cases :
               component[i] = component[j] => cases[i].split = cases[j].split
    /\ \A i \in DOMAIN cases : \A asset \in cases[i].assets :
           cases[FirstOwner(cases, asset)].split = cases[i].split

-----------------------------------------------------------------------------
(* Scoring.  truth: the class of each case of the scored split.            *)
(* predictions: the class predicted for each case that has a prediction.   *)

Support(truth, class) == Cardinality({c \in DOMAIN truth : truth[c] = class})

(* Mutant: cases without a prediction are not asked for. *)
ScorableWithGaps(truth, predictions, classes, minimumTotal, minimum) ==
    /\ \A c \in DOMAIN predictions : predictions[c] \in classes
    /\ DOMAIN truth # {}
    /\ DOMAIN predictions \subseteq DOMAIN truth
    /\ Cardinality(DOMAIN truth) >= minimumTotal
    /\ \A class \in classes : Support(truth, class) > 0 /\ Support(truth, class) >= minimum[class]

Scorable(truth, predictions, classes, minimumTotal, minimum) ==
    /\ \A c \in DOMAIN predictions : predictions[c] \in classes
    /\ DOMAIN truth # {}
    /\ DOMAIN predictions = DOMAIN truth
    /\ Cardinality(DOMAIN truth) >= minimumTotal
    /\ \A class \in classes : Support(truth, class) > 0 /\ Support(truth, class) >= minimum[class]

Matrix(truth, predictions, classes) ==
    [cell \in classes \X classes |->
        Cardinality({c \in DOMAIN predictions : <<truth[c], predictions[c]>> = cell})]

\* The four counts of each class, from the confusion matrix.
PerClass(matrix, classes) ==
    LET total == SumFunctionOnSet(matrix, classes \X classes) IN
    [class \in classes |->
        LET tp == matrix[<<class, class>>]
            fp == SumFunctionOnSet(matrix, (classes \ {class}) \X {class})
            fn == SumFunctionOnSet(matrix, {class} \X (classes \ {class}))
        IN  [tp |-> tp, fp |-> fp, fn |-> fn, tn |-> total - tp - fp - fn, support |-> tp + fn]]

Correct(matrix, classes) == SumFunctionOnSet(matrix, {<<class, class>> : class \in classes})
=============================================================================
