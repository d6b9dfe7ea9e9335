------------------------------- MODULE MCRules -------------------------------
(* Bounded inputs of Rules for TLC.                                         *)
EXTENDS Rules, TLC

MCLimits == [bytes |-> 3, rows |-> 2, layer |-> 2, total |-> 3, fields |-> 4, samples |-> 1]

MCHeaders ==
    [length : {7, 8, 39, 40, 55, 56, 71, 72}, magic : BOOLEAN, version : {0, 1}, flags : 0 .. 255]

Wgs == [epsg |-> TRUE, id |-> 4326, definition |-> "given"]
Utm == [Wgs EXCEPT !.id = 25832]

\* Keys that say the number they stand for, keys that say the other one, and
\* one that stands for nothing known.
Systems == {4326 :> Wgs @@ 25832 :> Utm, 4326 :> Utm @@ 25832 :> Wgs, 4326 :> Utm @@ 7 :> Wgs,
            25832 :> Utm @@ 7 :> [Utm EXCEPT !.id = 3857], 7 :> Utm @@ 8 :> Utm}

Good == [readable |-> TRUE, empty |-> FALSE, z |-> FALSE, m |-> FALSE, type |-> "LINESTRING",
         valid |-> TRUE, sourceRange |-> TRUE, wgs84Range |-> TRUE]
Row(index, geometry, code, name) ==
    [index |-> index, sampled |-> index = 1, geometry |-> geometry, code |-> code, name |-> name,
     header |-> [length |-> 8, magic |-> TRUE, version |-> 0, flags |-> 1]]

\* A sound row, alone or beside one with a flaw the preflight does not see.
Rows(prefix) ==
    {{Row(1, Good, {prefix}, {"n"})} \cup other : other \in
        {{}, {Row(2, Good, {"Z"}, {"n"})}, {Row(2, Good, {prefix}, {"n"})},
         {Row(2, [Good EXCEPT !.readable = FALSE], {"Y"}, {"n"})},
         {Row(2, [Good EXCEPT !.type = "POINT"], {"Y"}, {"n"})},
         {Row(2, Good, {}, {"n"})}, {Row(2, Good, {"Y"}, {})}}}

Layers ==
    UNION {[name : {n}, isFeatures : {TRUE}, hasTable : {TRUE}, hasGeometryRow : {TRUE},
            z : {0}, m : {0}, type : {"LINESTRING"}, srs : {{4326}, {25832}, {7}},
            geometrySrs : {{}} \cup Issue({7}, n = "trenches"),
            badGeometrySrs : {FALSE}, fields : {{"geom", "object_code", "name"}}, column : {"geom"},
            columnType : {"BLOB"}, plainColumn : {TRUE}, features : Rows(n)] :
           n \in {"trenches", "pipe_routes", "notes"}}

\* At most one layer of each name: a table name is unique in gpkg_contents.
LayerSets == {{k, l} : <<k, l>> \in {p \in Layers \X Layers : p[1].name = p[2].name => p[1] = p[2]}}

MCFiles ==
    [regular : {TRUE}, bytes : {1}, changed : {FALSE}, isGpkg : {TRUE}, damaged : {FALSE},
     missingTables : {{}}, srs : Systems, stack : {TRUE}, layers : LayerSets]

Feature(place, geometries) ==
    [geometry : geometries, code : {{}, {"A"}}, place : {place}, attributes : {{}},
     nested : {{}}, hasRules : {FALSE}]
Features(geometries) ==
    {{f, g} : f \in Feature("TRENCHES-1", geometries), g \in Feature("TRENCHES-2", geometries)}

JsonLayer(name) ==
    [name : {name}, wellFormed : BOOLEAN, features : {{}} \cup Features({"good", "bad"})]
MCPackages ==
    [bytes : {1}, isObject : {TRUE}, schemaSupported : {TRUE}, crs : {{4326}}, purpose : {"demo"},
     synthetic : {"yes"},
     layers : {{k, l} : k \in JsonLayer("trenches"), l \in JsonLayer("notes")}
              \cup {{l} : l \in JsonLayer("trenches")}]

\* A table that is not looked for may lie beside the one that is.
Notes == {[name |-> "notes", crs |-> {3857}, hasGeojson |-> FALSE,
           features |-> {f \in Feature("NOTES-1", {"good"}) : f.code = {}}]}
MCDerivatives ==
    [readable : {TRUE}, hasContents : {TRUE},
     layers : {{l} \cup other : <<l, other>> \in
                  [name : {"trenches"}, crs : {{4326}, {3857}}, hasGeojson : {TRUE},
                   features : Features({"good", "bad", "unreadable"})]
                  \X {{}, Notes}}]

Splits == {"train", "validation"}
Grouped(lineages, captures) ==
    [source_lineage_id : lineages, capture_session_id : captures, project_group_id : {{1}}]

\* Four cases with groups that may chain them; three that may lack a group; and
\* three that may lack a project and share media.
BothKeys == <<"source_lineage_id", "capture_session_id">>
MCDatasets ==
    ({BothKeys}
        \X {[i \in 1 .. 4 |-> [split |-> c[i].split, groups |-> c[i].groups, assets |-> {i}]] :
                c \in [1 .. 4 -> [split : Splits, groups : Grouped({{1}, {2}}, {{1}, {2}, {3}})]]})
    \cup ({BothKeys}
        \X [1 .. 3 -> [split : Splits, assets : {{}},
                       groups : Grouped({{}, {1}, {2}}, {{}, {1}, {2}})]])
    \cup ({<<"project_group_id">>}
        \X [1 .. 3 -> [split : Splits, assets : {{1}, {2}, {3}},
                       groups : [project_group_id : {{}, {1}, {2}}]]])

MCClasses == {"ok", "rope", "hat"}
MCScores ==
    [truth : [1 .. 4 -> MCClasses], predictions : UNION {[S -> MCClasses] : S \in SUBSET (1 .. 4)},
     minimumTotal : {3}, minimum : {[class \in MCClasses |-> 1]}]

MCKeys == {4326, 25832, 7}
=============================================================================
