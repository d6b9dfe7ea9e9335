--------------------------- MODULE GpkgPreflight ---------------------------
(***************************************************************************)
(* What a standard GeoPackage must be before it may become engineering     *)
(* objects: the read-only preflight of services/gpkg_preflight.py and the  *)
(* normalisation of services/gpkg_normalize.py.  A file is a record; the   *)
(* SQLite, WKB and projection libraries appear by what they report of it   *)
(* (a geometry that parses, a coordinate that is in range).                *)
(***************************************************************************)
EXTENDS Naturals, FiniteSets

CONSTANT Limits   \* GpkgPreflightPolicy: [bytes, rows, layer, total, fields, samples]

ASSUME LimitsAssumption ==
    \A field \in {"bytes", "rows", "layer", "total", "fields", "samples"} : Limits[field] \in Nat

\* LAYER_WHITELIST, ALLOWED_GEOMETRY
ObjectType == [pipe_routes |-> "pipe_route", trenches |-> "trench",
               infrastructure_points |-> "infrastructure_point"]
AllowedGeometry == [pipe_routes |-> {"LINESTRING"}, trenches |-> {"POLYGON", "LINESTRING"},
                    infrastructure_points |-> {"POINT"}]
AllowedEpsg == {4326, 25832}
RequiredFields == {"object_code", "name"}
AllowedFields == RequiredFields \cup
    {"expected_pipe_count", "expected_trench_stage", "expected_specification", "material",
     "specification", "procedure_code", "design_version", "notes"}
ConflictingTypes ==
    {"TEXT", "INTEGER", "INT", "REAL", "FLOAT", "DOUBLE", "NUMERIC", "BOOLEAN", "BOOL"}

Issue(name, found) == IF found THEN {name} ELSE {}

-----------------------------------------------------------------------------
(***************************************************************************)
(* The header of a geometry blob: [length, magic, version, flags], flags   *)
(* one byte: B, three bits of envelope type E, Y, X and two reserved.      *)
(***************************************************************************)
EnvelopeType(flags) == (flags \div 2) % 8
\* Four, six or eight doubles after the first eight bytes.
EnvelopeBytes(e) == 8 * (<<0, 4, 6, 6, 8>>)[e + 1]
HasEmptyFlag(flags) == (flags \div 16) % 2 = 1
IsExtended(flags) == (flags \div 32) % 2 = 1

(* Mutant: the header is long enough once the fixed part is there. *)
HeaderIssuesIgnoreEnvelope(h) ==
    Issue("too_short", h.length < 8)
    \cup Issue("not_gp_magic", ~h.magic)
    \cup Issue("unsupported_version", h.version # 0)
    \cup Issue("reserved_bits", h.flags \div 64 # 0)
    \cup Issue("extended", IsExtended(h.flags))
    \cup Issue("empty_flag", HasEmptyFlag(h.flags))
    \cup Issue("illegal_envelope", EnvelopeType(h.flags) >= 5)

HeaderIssues(h) ==
    IF h.length < 8 THEN {"too_short"}
    ELSE IF ~h.magic THEN {"not_gp_magic"}
    ELSE Issue("unsupported_version", h.version # 0)
         \cup Issue("reserved_bits", h.flags \div 64 # 0)
         \cup Issue("extended", IsExtended(h.flags))
         \cup Issue("empty_flag", HasEmptyFlag(h.flags))
         \cup (IF EnvelopeType(h.flags) >= 5 THEN {"illegal_envelope"}
               ELSE Issue("truncated_header",
                          h.length < 8 + EnvelopeBytes(EnvelopeType(h.flags))))

-----------------------------------------------------------------------------
(***************************************************************************)
(* The spatial reference of a layer.  file.srs maps the keys of            *)
(* gpkg_spatial_ref_sys to [epsg, id, definition]: whether the organization*)
(* is EPSG, its number there, and "missing", "empty", "undefined" or       *)
(* "given".                                                                *)
(***************************************************************************)
CrsIssues(row) ==
    IF ~row.epsg THEN {"organization_not_epsg"}
    ELSE IF row.id \notin AllowedEpsg THEN {"epsg_not_allowed"}
    ELSE Issue("definition", row.definition # "given")

(* Mutant: the package's own key is taken for the EPSG number. *)
ResolvedFromKey(file, layer) == layer.srs \cap AllowedEpsg

\* The number comes from the referenced row, never from the key itself.
Resolved(file, layer) ==
    {file.srs[k].id : k \in {s \in layer.srs \cap DOMAIN file.srs : CrsIssues(file.srs[s]) = {}}}

\* layer.srs and layer.geometrySrs are empty when the column is null or no number.
SrsIssues(file, layer) ==
    Issue("contents_geometry_srs_mismatch",
          layer.srs # {} /\ layer.geometrySrs # {} /\ layer.srs # layer.geometrySrs)
    \cup Issue("srs_not_found", layer.srs \cap DOMAIN file.srs = {})
    \cup (UNION {CrsIssues(file.srs[k]) : k \in layer.srs \cap DOMAIN file.srs})
    \cup Issue("geometry_srs_invalid", layer.badGeometrySrs)

\* The blobs looked at: the first few that are not null, and none when the
\* column's name is no plain identifier.
SampleIssues(layer) ==
    IF layer.features = {} \/ ~layer.plainColumn \/ Limits.samples = 0 THEN {}
    ELSE LET sampled == {f \in layer.features : f.sampled}
         IN  Issue("samples_all_null", sampled = {})
             \cup UNION {HeaderIssues(f.header) : f \in sampled}

ColumnIssues(layer) ==
    Issue("too_many_fields", Cardinality(layer.fields) > Limits.fields)
    \cup Issue("geometry_column_missing", layer.column \notin layer.fields)
    \cup Issue("geometry_column_type",
               layer.column \in layer.fields /\ layer.columnType \in ConflictingTypes)
    \cup Issue("missing_required_fields", ~ RequiredFields \subseteq layer.fields)

Whitelisted(layer) == layer.isFeatures /\ layer.name \in DOMAIN ObjectType
\* Layers that are looked at in depth and whose rows count towards the total.
Examined(layer) == Whitelisted(layer) /\ layer.hasTable /\ layer.hasGeometryRow

LayerIssues(file, layer) ==
    IF ~Examined(layer) THEN {"not_importable"}
    ELSE Issue("geometry_has_z", layer.z # 0)
         \cup Issue("geometry_has_m", layer.m # 0)
         \cup Issue("geometry_type", layer.type \notin AllowedGeometry[layer.name])
         \cup SrsIssues(file, layer)
         \cup ColumnIssues(layer)
         \cup Issue("empty_layer", layer.features = {})
         \cup Issue("too_many_features", Cardinality(layer.features) > Limits.layer)
         \cup SampleIssues(layer)

Accepted(file) == {l \in file.layers : LayerIssues(file, l) = {}}

-----------------------------------------------------------------------------
\* The path is read without following links, and must be the same file after
\* hashing and when SQLite opens it; then nothing else is looked at.
PathIssues(file) ==
    IF ~file.regular THEN {"not_regular"}
    ELSE Issue("empty", file.bytes = 0) \cup Issue("too_large", file.bytes > Limits.bytes)
         \cup Issue("changed", file.changed)

RowsOf(layers) == UNION {{<<l.name, f.index>> : f \in l.features} : l \in layers}

ContentIssues(file) ==
    Issue("too_many_rows", Cardinality(file.layers) > Limits.rows)
    \cup Issue("no_feature_layers", \A l \in file.layers : ~l.isFeatures)
    \cup Issue("too_many_features_total",
               Cardinality(RowsOf({l \in file.layers : Examined(l)})) > Limits.total)
    \cup Issue("no_accepted_layers",
               (\E l \in file.layers : Whitelisted(l)) /\ Accepted(file) = {})
    \cup Issue("mixed_crs",
               Cardinality(UNION {Resolved(file, l) : l \in Accepted(file)}) > 1)

FileIssues(file) ==
    IF PathIssues(file) # {} THEN PathIssues(file)
    ELSE Issue("application_id", ~file.isGpkg)
         \cup Issue("quick_check", file.damaged)
         \cup Issue("missing_table", file.missingTables # {})
         \cup (IF "gpkg_contents" \in file.missingTables THEN {} ELSE ContentIssues(file))

PreflightValid(file) == FileIssues(file) = {} /\ Accepted(file) # {}

-----------------------------------------------------------------------------
(***************************************************************************)
(* Normalisation.  A feature's geometry is what the libraries say of it:   *)
(* [readable, empty, z, m, type, valid, sourceRange, wgs84Range].  One     *)
(* feature that fails refuses the whole file.                              *)
(***************************************************************************)
FeatureIssues(layer, feature) ==
    LET g == feature.geometry IN
    IF ~g.readable THEN {"unreadable"}
    ELSE Issue("empty", g.empty)
         \cup Issue("has_z", g.z) \cup Issue("has_m", g.m)
         \cup Issue("type", g.type \notin AllowedGeometry[layer.name])
         \cup Issue("invalid", ~g.valid)
         \cup Issue("out_of_range", ~g.sourceRange \/ ~g.wgs84Range)
         \cup Issue("missing_object_code", feature.code = {})
         \cup Issue("missing_name", feature.name = {})

\* Only allowed columns are read, and the two required ones have places of their own.
CandidatesOf(file, layer) ==
    {[code |-> x[1], type |-> ObjectType[layer.name], layer |-> layer.name, epsg |-> x[2],
      index |-> x[3].index, attributes |-> (layer.fields \cap AllowedFields) \ RequiredFields] :
        x \in {y \in (UNION {g.code : g \in layer.features}) \X Resolved(file, layer)
                         \X layer.features :
                  y[1] \in y[3].code /\ FeatureIssues(layer, y[3]) = {}}}

Candidates(file) == UNION {CandidatesOf(file, l) : l \in Accepted(file)}

NormalizeIssues(file) ==
    (UNION {UNION {FeatureIssues(l, f) : f \in l.features} : l \in Accepted(file)})
    \cup Issue("object_code_duplicate",
               \E a, b \in Candidates(file) : a # b /\ a.code = b.code)
    \cup Issue("too_many_features_total",
               Cardinality(RowsOf(Accepted(file))) > Limits.total)
    \cup Issue("no_candidates", Candidates(file) = {})

\* With no geometry libraries installed (the stack) every file is refused.
Normalizes(file) ==
    /\ PreflightValid(file)
    /\ file.stack
    /\ NormalizeIssues(file) = {}

ObjectCodes(file) == {c.code : c \in Candidates(file)}

\* The layers as the imported package's row describes them.
LayerSummary(file) ==
    {[name |-> l.name, whitelisted |-> Whitelisted(l), accepted |-> l \in Accepted(file)] :
        l \in file.layers}
=============================================================================
