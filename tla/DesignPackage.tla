--------------------------- MODULE DesignPackage ---------------------------
(***************************************************************************)
(* Design packages in JSON, and the legacy GeoPackage derivative that is   *)
(* turned into one (services/design_package.py): what is refused, what is  *)
(* skipped with a warning, and which engineering objects and default rules *)
(* come out.                                                               *)
(***************************************************************************)
EXTENDS Naturals, FiniteSets

LayerTypes == [pipe_routes |-> "pipe_route", trenches |-> "trench",
               infrastructure_points |-> "infrastructure_point"]
SupportedCrs == {4326, 25832}

Flag(name, found) == IF found THEN {name} ELSE {}

\* ATTRIBUTE_WHITELIST; what REDACT_DENYLIST names is not among it.
SnapshotAttributes ==
    {"object_code", "name", "expected_pipe_count", "visible_pipe_count", "trench_stage",
     "expected_trench_stage", "material", "specification", "expected_specification",
     "procedure_code", "design_version", "notes", "object_visibility"}
DeniedAttributes ==
    {"name_person", "person_name", "phone", "telephone", "email", "address", "full_address",
     "contact", "attachment_path", "photo_path", "external_path", "owner_name",
     "operator_name", "site_owner"}

\* feature.nested: attributes whose value is a list or an object.
Redacted(feature) ==
    ((feature.attributes \cap SnapshotAttributes) \ DeniedAttributes) \ feature.nested

\* Each expectation is the field a photo must show, and whether the design
\* fixes its value or only its range.
DefaultRules(attributes, type) ==
    {<<"object_visibility", "range">>}
    \cup Flag(<<"visible_pipe_count", "value">>, "expected_pipe_count" \in attributes)
    \cup Flag(<<"trench_stage", "value">>, "expected_trench_stage" \in attributes)
    \cup Flag(<<"trench_stage", "range">>,
              "expected_trench_stage" \notin attributes /\ type \in {"pipe_route", "trench"})
    \cup Flag(<<"visible_material_or_specification", "value">>,
              "expected_specification" \in attributes)

-----------------------------------------------------------------------------
\* p.synthetic is "yes", "no", "other" or "absent"; p.crs holds at most one number.
PackageIssues(p, requireSynthetic) ==
    Flag("schema_version", ~p.schemaSupported)
    \cup Flag("source_crs", p.crs \cap SupportedCrs = {})
    \cup Flag("layers", p.layers = {})
    \cup Flag("purpose", p.purpose \notin {"absent", "demo", "controlled"})
    \cup Flag("synthetic", p.synthetic # (IF requireSynthetic THEN "yes" ELSE "no"))

Usable(layer) == layer.name \in DOMAIN LayerTypes /\ layer.wellFormed
Placed(feature) == feature.geometry = "good"

\* A feature without a code is named after its layer and place.
CodeOf(feature) == IF feature.code = {} THEN {feature.place} ELSE feature.code

ObjectOf(p, layer, feature) ==
    [code |-> CHOOSE c \in CodeOf(feature) : TRUE, type |-> LayerTypes[layer.name],
     place |-> feature.place, attributes |-> Redacted(feature),
     rules |-> IF feature.hasRules THEN {<<"own", "rules">>}
               ELSE DefaultRules(Redacted(feature), LayerTypes[layer.name])]

JsonObjects(p) ==
    UNION {{ObjectOf(p, l, f) : f \in {g \in l.features : Placed(g)}} :
           l \in {k \in p.layers : Usable(k)}}

JsonIssues(p, requireSynthetic) ==
    IF PackageIssues(p, requireSynthetic) # {} THEN PackageIssues(p, requireSynthetic)
    ELSE Flag("duplicate", \E a, b \in JsonObjects(p) : a # b /\ a.code = b.code)
         \cup Flag("no_objects", JsonObjects(p) = {})

JsonWarnings(p) ==
    {l.name : l \in {k \in p.layers : ~Usable(k)}}
    \cup UNION {{f.place : f \in {g \in l.features : ~Placed(g)}} :
                l \in {k \in p.layers : Usable(k)}}

ImportStatus(p) == IF JsonWarnings(p) = {} THEN "completed" ELSE "partial"

\* What the upload route refuses before the importer sees it.
UploadIssues(p, maxBytes) ==
    Flag("too_large", p.bytes > maxBytes)
    \cup Flag("empty", p.bytes = 0)
    \cup Flag("not_json", ~p.isObject)
    \cup Flag("synthetic", p.synthetic # "yes")

-----------------------------------------------------------------------------
(***************************************************************************)
(* The derivative: a SQLite file whose layers hold GeoJSON text.  All its  *)
(* layers must name one supported reference system.                        *)
(***************************************************************************)
\* Only whitelisted layers are looked for.
DerivedLayers(d) == {l \in d.layers : l.name \in DOMAIN LayerTypes}
DerivedCrs(d) == UNION {l.crs : l \in DerivedLayers(d)}
KeptRows(l) == {r \in l.features : r.geometry # "unreadable"}

DerivativeIssues(d) ==
    Flag("not_readable", ~d.readable)
    \cup Flag("no_contents", ~d.hasContents)
    \cup Flag("no_layers", DerivedLayers(d) = {})
    \cup Flag("srs", \E l \in DerivedLayers(d) : l.crs \cap SupportedCrs = {})
    \cup Flag("mixed_crs", Cardinality(DerivedCrs(d)) > 1)
    \cup Flag("no_geojson", \E l \in DerivedLayers(d) : ~l.hasGeojson)
    \cup Flag("nothing_kept", \A l \in DerivedLayers(d) : KeptRows(l) = {})

\* What is handed to the JSON importer, as a package that is not synthetic.
DerivedPackage(d) ==
    [schemaSupported |-> TRUE, crs |-> DerivedCrs(d), purpose |-> "controlled",
     synthetic |-> "no",
     layers |-> {[name |-> l.name, wellFormed |-> TRUE, features |-> KeptRows(l)] :
                 l \in {k \in DerivedLayers(d) : KeptRows(k) # {}}}]

(* Mutant: rows dropped here leave no trace in the package's status. *)
DerivedStatusForgetful(d) == ImportStatus(DerivedPackage(d))

DerivedStatus(d) ==
    IF \E l \in DerivedLayers(d) : KeptRows(l) # l.features THEN "partial"
    ELSE ImportStatus(DerivedPackage(d))
=============================================================================
