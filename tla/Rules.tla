-------------------------------- MODULE Rules --------------------------------
(***************************************************************************)
(* What the pure rules of GpkgPreflight, DesignPackage and EvaluationRules *)
(* promise of their inputs.  A state is one input, a geometry header, a    *)
(* GeoPackage, a JSON package, a derivative, a dataset or a score, and     *)
(* nothing changes it.                                                     *)
(***************************************************************************)
EXTENDS GpkgPreflight, DesignPackage, EvaluationRules

CONSTANTS
  Headers, Files, Packages, Derivatives, Datasets, Scores,   \* the inputs
  Keys,      \* keys of reference systems that may be exchanged
  Classes    \* the classes of a score

AtMostOne(S) == \A x, y \in S : x = y

HeaderType == [length : Nat, magic : BOOLEAN, version : Nat, flags : 0 .. 255]

\* A row's number in its table is its own; a null is an empty set.
IsLayer(l) ==
    /\ DOMAIN l = {"name", "isFeatures", "hasTable", "hasGeometryRow", "z", "m", "type", "srs",
                   "geometrySrs", "badGeometrySrs", "fields", "column", "columnType", "plainColumn",
                   "features"}
    /\ AtMostOne(l.srs) /\ AtMostOne(l.geometrySrs)
    /\ IsFiniteSet(l.features)
    /\ \A f, g \in l.features : f.index = g.index => f = g
    /\ \A f \in l.features : AtMostOne(f.code)

\* table_name is the key of gpkg_contents.
IsFile(file) ==
    /\ DOMAIN file = {"regular", "bytes", "changed", "isGpkg", "damaged", "missingTables", "srs",
                      "stack", "layers"}
    /\ IsFiniteSet(file.layers)
    /\ \A l, k \in file.layers : l.name = k.name => l = k
    /\ \A l \in file.layers : IsLayer(l)

\* The layers of a JSON object, or the tables of a derivative, by their names;
\* the place of a feature is its number in its layer's list.
HasLayers(layers) ==
    /\ IsFiniteSet(layers)
    /\ \A l, k \in layers : l.name = k.name => l = k
    /\ \A l \in layers : /\ IsFiniteSet(l.features)
                         /\ \A f, g \in l.features : f.place = g.place => f = g
                         /\ \A f \in l.features : AtMostOne(f.code)

\* The keys and the cases of a dataset come in lists.
IsList(s) == Len(s) \in Nat /\ DOMAIN s = 1 .. Len(s)
IsDataset(d) == IsList(d[1]) /\ IsList(d[2])

\* The true classes are declared ones.
IsScore(s) == IsFiniteSet(DOMAIN s.truth) /\ \A c \in DOMAIN s.truth : s.truth[c] \in Classes

ASSUME RulesAssumption ==
    /\ Headers \subseteq HeaderType
    /\ \A file \in Files : IsFile(file)
    /\ \A p \in Packages : HasLayers(p.layers)
    /\ \A d \in Derivatives : HasLayers(d.layers)
    /\ \A d \in Datasets : IsDataset(d)
    /\ IsFiniteSet(Classes)
    /\ \A s \in Scores : IsScore(s)

VARIABLE input   \* <<what it is, the value>>

Init ==
    \/ input \in {"header"} \X Headers
    \/ input \in {"file"} \X Files
    \/ input \in {"json"} \X Packages
    \/ input \in {"derivative"} \X Derivatives
    \/ input \in {"dataset"} \X Datasets
    \/ input \in {"score"} \X Scores

Next == UNCHANGED input

Spec == Init /\ [][Next]_input

-----------------------------------------------------------------------------
\* The axes of the five envelope types: none, xy, xyz, xym, xyzm.
Axes == <<0, 2, 3, 3, 4>>

HeaderFits(h) ==
    HeaderIssues(h) = {} <=>
        /\ h.magic /\ h.version = 0
        /\ \E type \in 1 .. 5, littleEndian \in 0 .. 1 :
               /\ h.flags = littleEndian + 2 * (type - 1)
               /\ h.length >= 8 + 2 * 8 * Axes[type]

\* A header is let through exactly when it has one of the five envelopes, is
\* as long as that envelope's two bounds per axis, and says nothing else.
HeaderFitsItsEnvelope == input[1] = "header" => HeaderFits(input[2])

\* A key after a and b were exchanged, and a layer and a file that use such keys.
Other(a, b, k) == IF k = a THEN b ELSE IF k = b THEN a ELSE k
Swapped(a, b, S) == {Other(a, b, k) : k \in S}
RekeyedLayer(a, b, l) ==
    [l EXCEPT !.srs = Swapped(a, b, @), !.geometrySrs = Swapped(a, b, @)]
Rekeyed(a, b, file) ==
    [file EXCEPT !.srs = [k \in Swapped(a, b, DOMAIN @) |-> @[Other(a, b, k)]],
                 !.layers = {RekeyedLayer(a, b, l) : l \in @}]

\* The keys by which a GeoPackage names its reference systems mean nothing:
\* exchanging two of them, 4326 or 25832 among them, changes neither what is
\* accepted nor the EPSG number an object gets.
CrsKeysAreOpaque(file) ==
    \A a, b \in Keys :
        /\ Normalizes(Rekeyed(a, b, file)) = Normalizes(file)
        /\ Candidates(Rekeyed(a, b, file)) = Candidates(file)

\* The objects of one import all lie in one of the two allowed systems.
OneReferenceSystem(file) ==
    Normalizes(file) => \E n \in AllowedEpsg : \A c \in Candidates(file) : c.epsg = n

\* What the objects' coordinates mean depends on neither the keys of the file
\* nor the layer they come from.
ReferenceSystemsAreResolved ==
    input[1] = "file" => CrsKeysAreOpaque(input[2]) /\ OneReferenceSystem(input[2])

\* Of a GeoPackage that is imported the rows left out are exactly those of the
\* layers that the package's row describes as not accepted, and every row that
\* is not left out has an object with a code no other row of the file has.  The
\* status does not tell: it is completed also when a layer of the whitelist was
\* rejected beside an accepted one (gpkg_preflight.py, gpkg_import.py).
OnlyRejectedLayersAreMissing(file) ==
    Normalizes(file) =>
        LET imported == {<<c.layer, c.index>> : c \in Candidates(file)}
            rejected == {s.name : s \in {t \in LayerSummary(file) : ~t.accepted}} IN
            /\ RowsOf(file.layers) \ imported
                   = RowsOf({l \in file.layers : l.name \in rejected})
            /\ imported \subseteq RowsOf(file.layers)
            /\ Cardinality(ObjectCodes(file)) = Cardinality(imported)

FeaturesOf(layers) == UNION {{l.name} \X l.features : l \in layers}

\* A JSON package that is imported says "completed" only when every feature it
\* holds, in whatever layer, has become an object; when it does not say so a
\* feature was skipped, or a layer that held none.
CompletedMeansEverything(p) ==
    JsonIssues(p, TRUE) = {} =>
        IF ImportStatus(p) = "completed"
        THEN Cardinality(JsonObjects(p)) = Cardinality(FeaturesOf(p.layers))
        ELSE \/ Cardinality(JsonObjects(p)) < Cardinality(FeaturesOf(p.layers))
             \/ \E l \in p.layers : ~Usable(l) /\ l.features = {}

\* A derivative says so exactly when every row of the layers that are looked
\* for has become an object.
DerivedMeansEverything(d) ==
    DerivativeIssues(d) = {} /\ JsonIssues(DerivedPackage(d), FALSE) = {} =>
        (DerivedStatus(d) = "completed"
            <=> Cardinality(JsonObjects(DerivedPackage(d)))
                    = Cardinality(FeaturesOf(DerivedLayers(d))))

\* What an import leaves out is accounted for: for a GeoPackage by the layers the
\* package describes as rejected, for the other two routes by its status.
MissingRowsAreAccountedFor ==
    /\ input[1] = "file" => OnlyRejectedLayersAreMissing(input[2])
    /\ input[1] = "json" => CompletedMeansEverything(input[2])
    /\ input[1] = "derivative" => DerivedMeansEverything(input[2])

Share(a, b, keys) ==
    \/ \E k \in DOMAIN keys :
           a.groups[keys[k]] # {} /\ a.groups[keys[k]] = b.groups[keys[k]]
    \/ a.assets \cap b.assets # {}

HaveProjects(cases, keys) ==
    (\E k \in DOMAIN keys : keys[k] = "project_group_id") =>
        \A i \in DOMAIN cases : cases[i].groups.project_group_id # {}

NothingShared(cases, keys) ==
    /\ HaveProjects(cases, keys)
    /\ \A i, j \in DOMAIN cases :
           cases[i].split # cases[j].split => ~Share(cases[i], cases[j], keys)

\* A dataset is accepted exactly when no two of its cases lie in different
\* splits and share a group or the bytes of a medium (and none lacks a project
\* where these are kept apart): the components that the union by rank finds, in
\* whatever order the keys and cases come, neither miss a chain of shared groups
\* nor make one up, and cases without a group are not taken for one.
IsolationMeansNothingShared ==
    input[1] = "dataset" =>
        (SplitsIsolated(input[2][2], input[2][1]) <=> NothingShared(input[2][2], input[2][1]))

\* In a score each case counts once: as support of its class, and, when it was
\* predicted wrongly, as one false positive and one false negative; so the
\* micro averages are the accuracy, as metrics.py says they are, and no case
\* without a prediction leaves the denominator.
CaseCounts(s) ==
    LET total == Cardinality(DOMAIN s.truth)
        matrix == Matrix(s.truth, s.predictions, Classes)
        count == PerClass(matrix, Classes)
        right == {c \in DOMAIN s.predictions : s.predictions[c] = s.truth[c]}
        wrong == total - Cardinality(right)
    IN  Scorable(s.truth, s.predictions, Classes, s.minimumTotal, s.minimum) =>
            /\ SumFunctionOnSet([class \in Classes |-> count[class].support], Classes) = total
            /\ SumFunctionOnSet([class \in Classes |-> count[class].fp], Classes) = wrong
            /\ SumFunctionOnSet([class \in Classes |-> count[class].fn], Classes) = wrong
            /\ Correct(matrix, Classes) = total - wrong

EveryCaseCounts == input[1] = "score" => CaseCounts(input[2])
=============================================================================
