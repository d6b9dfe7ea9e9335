--------------------------- MODULE MCDesignImport ---------------------------
(* Bounded instances of DesignImport for TLC.                               *)
EXTENDS DesignImport, TLC

MCLimits == [bytes |-> 3, rows |-> 2, layer |-> 2, total |-> 3, fields |-> 4, samples |-> 1]

Utm == [epsg |-> TRUE, id |-> 25832, definition |-> "given"]
Fits == [length |-> 8, magic |-> TRUE, version |-> 0, flags |-> 1]
Good(type) == [readable |-> TRUE, empty |-> FALSE, z |-> FALSE, m |-> FALSE, type |-> type,
               valid |-> TRUE, sourceRange |-> TRUE, wgs84Range |-> TRUE]

Feature(index, code) ==
    [index |-> index, sampled |-> TRUE, header |-> Fits, geometry |-> Good("LINESTRING"),
     code |-> code, name |-> {"name"}]

Layer(features) ==
    [name |-> "trenches", isFeatures |-> TRUE, hasTable |-> TRUE, hasGeometryRow |-> TRUE,
     z |-> 0, m |-> 0, type |-> "LINESTRING", srs |-> {7}, geometrySrs |-> {7},
     badGeometrySrs |-> FALSE, fields |-> {"geom", "object_code", "name"}, column |-> "geom",
     columnType |-> "BLOB", plainColumn |-> TRUE, features |-> features]

File(size, features) ==
    [regular |-> TRUE, bytes |-> size, changed |-> FALSE, isGpkg |-> TRUE, damaged |-> FALSE,
     missingTables |-> {}, srs |-> 7 :> Utm, stack |-> TRUE, layers |-> {Layer(features)}]

\* Two sound files without a common object, one whose feature has no code and
\* one too large for the quota.
MCContents ==
    "da" :> File(1, {Feature(1, {"A"})}) @@
    "db" :> File(2, {Feature(1, {"B"})}) @@
    "dx" :> File(1, {Feature(1, {})}) @@
    "dz" :> File(3, {Feature(1, {"A"})})

Json(layers) ==
    [bytes |-> 1, isObject |-> TRUE, schemaSupported |-> TRUE, crs |-> {4326},
     purpose |-> "demo", synthetic |-> "yes", code |-> "J", layers |-> layers]
JsonFeature(code) ==
    [geometry |-> "good", code |-> code, place |-> "TRENCHES-1", attributes |-> {},
     nested |-> {}, hasRules |-> FALSE]
\* It names an object of a GeoPackage.
MCJsonFiles ==
    "jb" :> Json({[name |-> "trenches", wellFormed |-> TRUE, features |-> {JsonFeature({"B"})}]})
MCNoJson == [d \in {} |-> "none"]

Alike == Permutations(Confirms) \cup Permutations(Uploads) \cup Permutations(Codes)
=============================================================================
