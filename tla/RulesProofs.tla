----------------------------- MODULE RulesProofs -----------------------------
(***************************************************************************)
(* What the pure rules promise holds of every input, not of the bounded    *)
(* ones TLC looks at: headers of any length, files, packages, datasets and *)
(* scores of any size.                                                     *)
(***************************************************************************)
EXTENDS Rules, FiniteSetTheorems, TLAPS

-----------------------------------------------------------------------------
(***************************************************************************)
(* Geometry headers.                                                       *)
(***************************************************************************)

(* The flags of a sound header: an envelope type below five, and the byte
   order; no other bit is set.                                             *)
LEMMA SoundFlags ==
    ASSUME NEW flags \in 0 .. 255
    PROVE  (flags \div 64 = 0 /\ ~IsExtended(flags) /\ ~HasEmptyFlag(flags)
                /\ EnvelopeType(flags) < 5)
               <=> flags <= 9
<1>1. flags \div 64 = 0 <=> flags < 64
  OBVIOUS
<1>2. flags < 64 => (IsExtended(flags) <=> flags >= 32)
  BY DEF IsExtended
<1>3. flags < 32 => (HasEmptyFlag(flags) <=> flags >= 16)
  BY DEF HasEmptyFlag
<1>4. flags < 16 => EnvelopeType(flags) = flags \div 2
  BY DEF EnvelopeType
<1>5. flags < 16 => (flags \div 2 < 5 <=> flags <= 9)
  OBVIOUS
<1> QED BY <1>1, <1>2, <1>3, <1>4, <1>5

(* Hence the flags of an accepted header are one of ten.                   *)
LEMMA HeadersFit == ASSUME NEW h \in HeaderType PROVE HeaderFits(h)
<1>1. h.length \in Nat /\ h.magic \in BOOLEAN /\ h.version \in Nat /\ h.flags \in 0 .. 255
  BY DEF HeaderType
<1>2. HeaderIssues(h) = {} <=>
        /\ h.length >= 8 /\ h.magic /\ h.version = 0 /\ h.flags <= 9
        /\ h.length >= 8 + EnvelopeBytes(EnvelopeType(h.flags))
  <2>1. EnvelopeType(h.flags) \in 0 .. 7
    BY <1>1 DEF EnvelopeType
  <2>2. HeaderIssues(h) = {} <=>
          /\ h.length >= 8 /\ h.magic /\ h.version = 0
          /\ h.flags \div 64 = 0 /\ ~IsExtended(h.flags) /\ ~HasEmptyFlag(h.flags)
          /\ EnvelopeType(h.flags) < 5
          /\ ~(h.length < 8 + EnvelopeBytes(EnvelopeType(h.flags)))
    <3>1. \A name : \A found \in BOOLEAN : Issue(name, found) = {} <=> ~found
      BY DEF Issue
    <3>2. CASE h.length < 8 \/ ~h.magic
      BY <1>1, <3>2 DEF HeaderIssues
    <3>3. CASE ~(h.length < 8) /\ h.magic /\ EnvelopeType(h.flags) >= 5
      <4>1. "illegal_envelope" \in HeaderIssues(h)
        BY <3>3 DEF HeaderIssues
      <4> QED BY <1>1, <2>1, <3>3, <4>1
    <3>4. CASE ~(h.length < 8) /\ h.magic /\ ~(EnvelopeType(h.flags) >= 5)
      <4>1. HeaderIssues(h) =
              Issue("unsupported_version", h.version # 0)
              \cup Issue("reserved_bits", h.flags \div 64 # 0)
              \cup Issue("extended", IsExtended(h.flags))
              \cup Issue("empty_flag", HasEmptyFlag(h.flags))
              \cup Issue("truncated_header",
                         h.length < 8 + EnvelopeBytes(EnvelopeType(h.flags)))
        BY <3>4 DEF HeaderIssues
      <4>2. HeaderIssues(h) = {} <=>
              /\ Issue("unsupported_version", h.version # 0) = {}
              /\ Issue("reserved_bits", h.flags \div 64 # 0) = {}
              /\ Issue("extended", IsExtended(h.flags)) = {}
              /\ Issue("empty_flag", HasEmptyFlag(h.flags)) = {}
              /\ Issue("truncated_header",
                       h.length < 8 + EnvelopeBytes(EnvelopeType(h.flags))) = {}
        BY <4>1
      <4>3. /\ Issue("unsupported_version", h.version # 0) = {} <=> h.version = 0
            /\ Issue("reserved_bits", h.flags \div 64 # 0) = {} <=> h.flags \div 64 = 0
            /\ Issue("extended", IsExtended(h.flags)) = {} <=> ~IsExtended(h.flags)
            /\ Issue("empty_flag", HasEmptyFlag(h.flags)) = {} <=> ~HasEmptyFlag(h.flags)
            /\ Issue("truncated_header",
                     h.length < 8 + EnvelopeBytes(EnvelopeType(h.flags))) = {}
                 <=> ~(h.length < 8 + EnvelopeBytes(EnvelopeType(h.flags)))
        BY DEF Issue
      <4>4. EnvelopeType(h.flags) < 5
        BY <2>1, <3>4
      <4>5. h.length >= 8
        BY <1>1, <3>4
      <4> QED BY <3>4, <4>2, <4>3, <4>4, <4>5
    <3> QED BY <3>2, <3>3, <3>4
  <2>3. EnvelopeType(h.flags) < 5 => EnvelopeBytes(EnvelopeType(h.flags)) \in Nat
    BY <2>1 DEF EnvelopeBytes
  <2> QED BY <1>1, <2>2, <2>3, SoundFlags
<1>3. ASSUME h.flags <= 9
      PROVE  /\ EnvelopeType(h.flags) = h.flags \div 2 /\ h.flags \div 2 \in 0 .. 4
             /\ EnvelopeBytes(h.flags \div 2) = 2 * 8 * Axes[h.flags \div 2 + 1]
  <2>1. EnvelopeType(h.flags) = h.flags \div 2 /\ h.flags \div 2 \in 0 .. 4
    BY <1>1, <1>3 DEF EnvelopeType
  <2> QED BY <2>1 DEF EnvelopeBytes, Axes
<1>4. \A e \in 0 .. 4 : Axes[e + 1] \in Nat
  BY DEF Axes
<1>5. ASSUME HeaderIssues(h) = {}
      PROVE  \E type \in 1 .. 5, littleEndian \in 0 .. 1 :
               /\ h.flags = littleEndian + 2 * (type - 1)
               /\ h.length >= 8 + 2 * 8 * Axes[type]
  <2>1. h.flags = (h.flags % 2) + 2 * ((h.flags \div 2 + 1) - 1) /\ h.flags % 2 \in 0 .. 1
    BY <1>1
  <2> QED BY <1>1, <1>2, <1>3, <1>5, <2>1
<1>6. ASSUME h.magic, h.version = 0, NEW type \in 1 .. 5, NEW littleEndian \in 0 .. 1,
             h.flags = littleEndian + 2 * (type - 1), h.length >= 8 + 2 * 8 * Axes[type]
      PROVE  HeaderIssues(h) = {}
  <2>1. h.flags <= 9 /\ h.flags \div 2 + 1 = type /\ type - 1 \in 0 .. 4
    BY <1>6
  <2>2. Axes[type] \in Nat
    BY DEF Axes
  <2> QED BY <1>1, <1>2, <1>3, <1>6, <2>1, <2>2
<1> QED BY <1>2, <1>5, <1>6 DEF HeaderFits

-----------------------------------------------------------------------------
(***************************************************************************)
(* Reference systems.                                                      *)
(***************************************************************************)

(* Exchanging two keys twice changes nothing, so an exchange keeps apart    *)
(* what was apart.                                                          *)
LEMMA OtherTwice == ASSUME NEW a, NEW b, NEW k PROVE Other(a, b, Other(a, b, k)) = k
  BY DEF Other

(* The exchange commutes with the set operations.                          *)
LEMMA SwappedSets ==
    ASSUME NEW a, NEW b, NEW S, NEW T
    PROVE  /\ \A k : k \in Swapped(a, b, S) <=> Other(a, b, k) \in S
           /\ Swapped(a, b, S) \cap Swapped(a, b, T) = Swapped(a, b, S \cap T)
           /\ Swapped(a, b, S) = {} <=> S = {}
<1>1. \A U : \A k : k \in Swapped(a, b, U) <=> Other(a, b, k) \in U
  BY OtherTwice DEF Swapped
<1>2. Swapped(a, b, S) \cap Swapped(a, b, T) = Swapped(a, b, S \cap T)
  BY <1>1
<1>3. Swapped(a, b, S) = {} <=> S = {}
  BY <1>1, OtherTwice
<1> QED BY <1>1, <1>2, <1>3

LEMMA SwappedSame ==
    ASSUME NEW a, NEW b, NEW S, NEW T
    PROVE  Swapped(a, b, S) = Swapped(a, b, T) <=> S = T
  BY SwappedSets, OtherTwice

(* What the exchange leaves alone in a layer, and what it changes.         *)
LEMMA RekeyedLayerFields ==
    ASSUME NEW a, NEW b, NEW l, IsLayer(l)
    PROVE  LET r == RekeyedLayer(a, b, l) IN
           /\ r.srs = Swapped(a, b, l.srs) /\ r.geometrySrs = Swapped(a, b, l.geometrySrs)
           /\ r.name = l.name /\ r.isFeatures = l.isFeatures /\ r.hasTable = l.hasTable
           /\ r.hasGeometryRow = l.hasGeometryRow /\ r.z = l.z /\ r.m = l.m /\ r.type = l.type
           /\ r.badGeometrySrs = l.badGeometrySrs /\ r.fields = l.fields
           /\ r.column = l.column /\ r.columnType = l.columnType
           /\ r.plainColumn = l.plainColumn /\ r.features = l.features
  BY DEF RekeyedLayer, IsLayer

(* The same for a file; its systems are found under the exchanged keys.    *)
LEMMA RekeyedFields ==
    ASSUME NEW a, NEW b, NEW file, IsFile(file)
    PROVE  LET r == Rekeyed(a, b, file) IN
           /\ DOMAIN r.srs = Swapped(a, b, DOMAIN file.srs)
           /\ \A k \in DOMAIN r.srs : r.srs[k] = file.srs[Other(a, b, k)]
           /\ r.layers = {RekeyedLayer(a, b, l) : l \in file.layers}
           /\ r.regular = file.regular /\ r.bytes = file.bytes /\ r.changed = file.changed
           /\ r.isGpkg = file.isGpkg /\ r.damaged = file.damaged
           /\ r.missingTables = file.missingTables /\ r.stack = file.stack
  BY DEF Rekeyed, IsFile

(* A layer's systems are resolved, and refused, as before.                 *)
LEMMA ResolvedAlike ==
    ASSUME NEW a, NEW b, NEW file, IsFile(file), NEW l, IsLayer(l)
    PROVE  /\ Resolved(Rekeyed(a, b, file), RekeyedLayer(a, b, l)) = Resolved(file, l)
           /\ SrsIssues(Rekeyed(a, b, file), RekeyedLayer(a, b, l)) = SrsIssues(file, l)
<1> DEFINE r == Rekeyed(a, b, file)
           k == RekeyedLayer(a, b, l)
<1>1. /\ DOMAIN r.srs = Swapped(a, b, DOMAIN file.srs)
      /\ \A s \in DOMAIN r.srs : r.srs[s] = file.srs[Other(a, b, s)]
  BY RekeyedFields
<1>2. /\ k.srs = Swapped(a, b, l.srs) /\ k.geometrySrs = Swapped(a, b, l.geometrySrs)
      /\ k.badGeometrySrs = l.badGeometrySrs
  BY RekeyedLayerFields
<1> HIDE DEF r, k
<1>3. k.srs \cap DOMAIN r.srs = Swapped(a, b, l.srs \cap DOMAIN file.srs)
  BY <1>1, <1>2, SwappedSets
<1>4. \A s : s \in k.srs \cap DOMAIN r.srs <=> Other(a, b, s) \in l.srs \cap DOMAIN file.srs
  BY <1>3, SwappedSets
<1>5. \A s \in l.srs \cap DOMAIN file.srs :
         Other(a, b, s) \in k.srs \cap DOMAIN r.srs /\ r.srs[Other(a, b, s)] = file.srs[s]
  BY <1>1, <1>4, OtherTwice
<1>6. Resolved(r, k) = Resolved(file, l)
  <2>1. ASSUME NEW n \in Resolved(r, k) PROVE n \in Resolved(file, l)
    <3>1. PICK s \in k.srs \cap DOMAIN r.srs : CrsIssues(r.srs[s]) = {} /\ n = r.srs[s].id
      BY <2>1 DEF Resolved
    <3> QED BY <1>1, <1>4, <3>1 DEF Resolved
  <2>2. ASSUME NEW n \in Resolved(file, l) PROVE n \in Resolved(r, k)
    <3>1. PICK s \in l.srs \cap DOMAIN file.srs :
            CrsIssues(file.srs[s]) = {} /\ n = file.srs[s].id
      BY <2>2 DEF Resolved
    <3> QED BY <1>5, <3>1 DEF Resolved
  <2> QED BY <2>1, <2>2
<1>7. {CrsIssues(r.srs[s]) : s \in k.srs \cap DOMAIN r.srs}
        = {CrsIssues(file.srs[s]) : s \in l.srs \cap DOMAIN file.srs}
  BY <1>1, <1>4, <1>5
<1>8. /\ k.srs # {} <=> l.srs # {}
      /\ k.geometrySrs # {} <=> l.geometrySrs # {}
      /\ k.srs # k.geometrySrs <=> l.srs # l.geometrySrs
      /\ k.srs \cap DOMAIN r.srs = {} <=> l.srs \cap DOMAIN file.srs = {}
  <2>1. /\ Swapped(a, b, l.srs) = {} <=> l.srs = {}
        /\ Swapped(a, b, l.geometrySrs) = {} <=> l.geometrySrs = {}
        /\ Swapped(a, b, l.srs \cap DOMAIN file.srs) = {} <=> l.srs \cap DOMAIN file.srs = {}
    BY SwappedSets
  <2>2. Swapped(a, b, l.srs) = Swapped(a, b, l.geometrySrs) <=> l.srs = l.geometrySrs
    BY SwappedSame
  <2>3. k.srs = {} <=> l.srs = {}
    BY <1>2, <2>1
  <2>4. k.geometrySrs = {} <=> l.geometrySrs = {}
    BY <1>2, <2>1
  <2>5. k.srs = k.geometrySrs <=> l.srs = l.geometrySrs
    BY <1>2, <2>2
  <2>6. k.srs \cap DOMAIN r.srs = {} <=> l.srs \cap DOMAIN file.srs = {}
    BY <1>3, <2>1
  <2> QED BY <2>3, <2>4, <2>5, <2>6
<1>9. SrsIssues(r, k) = SrsIssues(file, l)
  <2>1. /\ Issue("contents_geometry_srs_mismatch",
                 k.srs # {} /\ k.geometrySrs # {} /\ k.srs # k.geometrySrs)
             = Issue("contents_geometry_srs_mismatch",
                     l.srs # {} /\ l.geometrySrs # {} /\ l.srs # l.geometrySrs)
        /\ Issue("srs_not_found", k.srs \cap DOMAIN r.srs = {})
             = Issue("srs_not_found", l.srs \cap DOMAIN file.srs = {})
    BY <1>8 DEF Issue
  <2> QED BY <1>2, <1>7, <2>1 DEF SrsIssues
<1> QED BY <1>6, <1>9 DEF r, k

(* So a layer has the issues and the candidates that it had.               *)
LEMMA LayersAlike ==
    ASSUME NEW a, NEW b, NEW file, IsFile(file), NEW l, IsLayer(l)
    PROVE  /\ LayerIssues(Rekeyed(a, b, file), RekeyedLayer(a, b, l)) = LayerIssues(file, l)
           /\ Whitelisted(RekeyedLayer(a, b, l)) <=> Whitelisted(l)
           /\ Examined(RekeyedLayer(a, b, l)) <=> Examined(l)
           /\ \A f : FeatureIssues(RekeyedLayer(a, b, l), f) = FeatureIssues(l, f)
           /\ CandidatesOf(Rekeyed(a, b, file), RekeyedLayer(a, b, l)) = CandidatesOf(file, l)
<1> DEFINE r == Rekeyed(a, b, file)
           k == RekeyedLayer(a, b, l)
<1>1. /\ k.name = l.name /\ k.isFeatures = l.isFeatures /\ k.hasTable = l.hasTable
      /\ k.hasGeometryRow = l.hasGeometryRow /\ k.z = l.z /\ k.m = l.m /\ k.type = l.type
      /\ k.fields = l.fields /\ k.column = l.column /\ k.columnType = l.columnType
      /\ k.plainColumn = l.plainColumn /\ k.features = l.features
  BY RekeyedLayerFields
<1>2. Resolved(r, k) = Resolved(file, l) /\ SrsIssues(r, k) = SrsIssues(file, l)
  BY ResolvedAlike
<1> HIDE DEF r, k
<1>3. (Whitelisted(k) <=> Whitelisted(l)) /\ (Examined(k) <=> Examined(l))
  BY <1>1 DEF Whitelisted, Examined
<1>4. SampleIssues(k) = SampleIssues(l)
  BY <1>1 DEF SampleIssues
<1>5. ColumnIssues(k) = ColumnIssues(l)
  BY <1>1 DEF ColumnIssues
<1>6. LayerIssues(r, k) = LayerIssues(file, l)
  BY <1>1, <1>2, <1>3, <1>4, <1>5 DEF LayerIssues
<1>7. \A f : FeatureIssues(k, f) = FeatureIssues(l, f)
  BY <1>1 DEF FeatureIssues
<1>8. CandidatesOf(r, k) = CandidatesOf(file, l)
  BY <1>1, <1>2, <1>7 DEF CandidatesOf
<1> QED BY <1>3, <1>6, <1>7, <1>8 DEF r, k

(* The files before and after an exchange have the same candidates, rows   *)
(* and issues.                                                             *)
LEMMA CandidatesAlike ==
    ASSUME NEW a, NEW b, NEW file, IsFile(file)
    PROVE  /\ Accepted(Rekeyed(a, b, file)) = {RekeyedLayer(a, b, l) : l \in Accepted(file)}
           /\ Candidates(Rekeyed(a, b, file)) = Candidates(file)
           /\ NormalizeIssues(Rekeyed(a, b, file)) = NormalizeIssues(file)
<1> DEFINE r == Rekeyed(a, b, file)
<1>1. \A l \in file.layers : IsLayer(l)
  BY DEF IsFile
<1>2. r.layers = {RekeyedLayer(a, b, l) : l \in file.layers}
  BY RekeyedFields
<1>3. \A l \in file.layers :
        /\ LayerIssues(r, RekeyedLayer(a, b, l)) = LayerIssues(file, l)
        /\ CandidatesOf(r, RekeyedLayer(a, b, l)) = CandidatesOf(file, l)
        /\ \A f : FeatureIssues(RekeyedLayer(a, b, l), f) = FeatureIssues(l, f)
        /\ RekeyedLayer(a, b, l).name = l.name /\ RekeyedLayer(a, b, l).features = l.features
  BY <1>1, LayersAlike, RekeyedLayerFields
<1> HIDE DEF r
<1>4. Accepted(r) = {RekeyedLayer(a, b, l) : l \in Accepted(file)}
  BY <1>2, <1>3 DEF Accepted
<1>5. \A l \in Accepted(file) : l \in file.layers
  BY DEF Accepted
<1>6. Candidates(r) = Candidates(file)
  <2>1. {CandidatesOf(r, k) : k \in Accepted(r)} = {CandidatesOf(file, l) : l \in Accepted(file)}
    BY <1>3, <1>4, <1>5
  <2> QED BY <2>1 DEF Candidates
<1>7. RowsOf(Accepted(r)) = RowsOf(Accepted(file))
  <2>1. {{<<k.name, f.index>> : f \in k.features} : k \in Accepted(r)}
          = {{<<l.name, f.index>> : f \in l.features} : l \in Accepted(file)}
    BY <1>3, <1>4, <1>5
  <2> QED BY <2>1 DEF RowsOf
<1>8. {UNION {FeatureIssues(k, f) : f \in k.features} : k \in Accepted(r)}
        = {UNION {FeatureIssues(l, f) : f \in l.features} : l \in Accepted(file)}
  BY <1>3, <1>4, <1>5
<1>9. NormalizeIssues(r) = NormalizeIssues(file)
  BY <1>6, <1>7, <1>8 DEF NormalizeIssues
<1> QED BY <1>4, <1>6, <1>9 DEF r

(* The preflight looks at names, counts and issues, and these are as before.*)
LEMMA PreflightAlike ==
    ASSUME NEW a, NEW b, NEW file, IsFile(file)
    PROVE  PreflightValid(Rekeyed(a, b, file)) <=> PreflightValid(file)
<1> DEFINE r == Rekeyed(a, b, file)
<1>1. \A l \in file.layers : IsLayer(l)
  BY DEF IsFile
<1>2. /\ r.layers = {RekeyedLayer(a, b, l) : l \in file.layers}
      /\ r.regular = file.regular /\ r.bytes = file.bytes /\ r.changed = file.changed
      /\ r.isGpkg = file.isGpkg /\ r.damaged = file.damaged
      /\ r.missingTables = file.missingTables
  BY RekeyedFields
<1>3. \A l \in file.layers :
        /\ Resolved(r, RekeyedLayer(a, b, l)) = Resolved(file, l)
        /\ Whitelisted(RekeyedLayer(a, b, l)) <=> Whitelisted(l)
        /\ Examined(RekeyedLayer(a, b, l)) <=> Examined(l)
        /\ RekeyedLayer(a, b, l).name = l.name /\ RekeyedLayer(a, b, l).features = l.features
        /\ RekeyedLayer(a, b, l).isFeatures = l.isFeatures
  <2> SUFFICES ASSUME NEW l \in file.layers
               PROVE  /\ Resolved(r, RekeyedLayer(a, b, l)) = Resolved(file, l)
                      /\ Whitelisted(RekeyedLayer(a, b, l)) <=> Whitelisted(l)
                      /\ Examined(RekeyedLayer(a, b, l)) <=> Examined(l)
                      /\ RekeyedLayer(a, b, l).name = l.name
                      /\ RekeyedLayer(a, b, l).features = l.features
                      /\ RekeyedLayer(a, b, l).isFeatures = l.isFeatures
    OBVIOUS
  <2>1. Resolved(r, RekeyedLayer(a, b, l)) = Resolved(file, l)
    BY <1>1, ResolvedAlike
  <2>2. /\ Whitelisted(RekeyedLayer(a, b, l)) <=> Whitelisted(l)
        /\ Examined(RekeyedLayer(a, b, l)) <=> Examined(l)
    BY <1>1, LayersAlike
  <2> QED BY <1>1, <2>1, <2>2, RekeyedLayerFields
<1>4. Accepted(r) = {RekeyedLayer(a, b, l) : l \in Accepted(file)}
  BY CandidatesAlike
<1>5. \A l \in Accepted(file) : l \in file.layers
  BY DEF Accepted
<1>6. Cardinality(r.layers) = Cardinality(file.layers)
  <2> DEFINE f == [l \in file.layers |-> RekeyedLayer(a, b, l)]
  <2>1. \A l, k \in file.layers : RekeyedLayer(a, b, l) = RekeyedLayer(a, b, k) => l = k
    BY <1>3 DEF IsFile
  <2>2. f \in Bijection(file.layers, r.layers)
    BY <1>2, <2>1 DEF Bijection, Injection, Surjection, IsInjective
  <2>3. IsFiniteSet(file.layers)
    BY DEF IsFile
  <2>4. ExistsBijection(file.layers, r.layers)
    BY <2>2 DEF ExistsBijection
  <2> QED BY <2>3, <2>4, FS_Bijection
<1> HIDE DEF r
<1>7. PathIssues(r) = PathIssues(file)
  BY <1>2 DEF PathIssues
<1>8. ContentIssues(r) = ContentIssues(file)
  <2>1. (\A k \in r.layers : ~k.isFeatures) <=> (\A l \in file.layers : ~l.isFeatures)
    BY <1>2, <1>3
  <2>2. RowsOf({k \in r.layers : Examined(k)}) = RowsOf({l \in file.layers : Examined(l)})
    <3>1. {{<<k.name, f.index>> : f \in k.features} : k \in {j \in r.layers : Examined(j)}}
            = {{<<l.name, f.index>> : f \in l.features} : l \in {j \in file.layers : Examined(j)}}
      BY <1>2, <1>3
    <3> QED BY <3>1 DEF RowsOf
  <2>3. (\E k \in r.layers : Whitelisted(k)) <=> (\E l \in file.layers : Whitelisted(l))
    BY <1>2, <1>3
  <2>4. Accepted(r) = {} <=> Accepted(file) = {}
    BY <1>4
  <2>5. {Resolved(r, k) : k \in Accepted(r)} = {Resolved(file, l) : l \in Accepted(file)}
    BY <1>3, <1>4, <1>5
  <2>6. /\ Issue("no_feature_layers", \A k \in r.layers : ~k.isFeatures)
             = Issue("no_feature_layers", \A l \in file.layers : ~l.isFeatures)
        /\ Issue("no_accepted_layers",
                 (\E k \in r.layers : Whitelisted(k)) /\ Accepted(r) = {})
             = Issue("no_accepted_layers",
                     (\E l \in file.layers : Whitelisted(l)) /\ Accepted(file) = {})
    BY <2>1, <2>3, <2>4 DEF Issue
  <2> QED BY <1>6, <2>2, <2>5, <2>6 DEF ContentIssues
<1>9. FileIssues(r) = FileIssues(file)
  BY <1>2, <1>7, <1>8 DEF FileIssues
<1> QED BY <1>4, <1>9 DEF PreflightValid, r

LEMMA KeysAreOpaque == ASSUME NEW file, IsFile(file) PROVE CrsKeysAreOpaque(file)
  BY CandidatesAlike, PreflightAlike, RekeyedFields DEF CrsKeysAreOpaque, Normalizes

(* What a file that is normalised has passed.                              *)
LEMMA NormalizedFile ==
    ASSUME NEW file, Normalizes(file)
    PROVE  /\ ContentIssues(file) = {} /\ NormalizeIssues(file) = {}
           /\ Accepted(file) # {} /\ Candidates(file) # {}
<1>1. FileIssues(file) = {} /\ Accepted(file) # {} /\ NormalizeIssues(file) = {}
  BY DEF Normalizes, PreflightValid
<1>2. PathIssues(file) = {}
  BY <1>1 DEF FileIssues
<1>3. Issue("missing_table", file.missingTables # {}) = {}
  BY <1>1, <1>2 DEF FileIssues
<1>4. file.missingTables = {}
  BY <1>3 DEF Issue
<1>5. ContentIssues(file) = {}
  BY <1>1, <1>2, <1>4 DEF FileIssues
<1>6. ASSUME Candidates(file) = {} PROVE FALSE
  <2>1. Issue("no_candidates", Candidates(file) = {}) \subseteq NormalizeIssues(file)
    BY DEF NormalizeIssues
  <2> QED BY <1>1, <1>6, <2>1 DEF Issue
<1> QED BY <1>1, <1>5, <1>6

LEMMA PairCardinality ==
    ASSUME NEW x, NEW y
    PROVE  IsFiniteSet({x, y}) /\ (x # y => Cardinality({x, y}) = 2)
<1>1. IsFiniteSet({x}) /\ Cardinality({x}) = 1
  BY FS_Singleton
<1>2. {x, y} = {x} \cup {y}
  OBVIOUS
<1>3. /\ IsFiniteSet({x} \cup {y})
      /\ Cardinality({x} \cup {y})
           = IF y \in {x} THEN Cardinality({x}) ELSE Cardinality({x}) + 1
  BY <1>1, FS_AddElement
<1> QED BY <1>1, <1>2, <1>3

(* mixed_crs is found before anything is made of the file.                 *)
LEMMA OneSystem == ASSUME NEW file PROVE OneReferenceSystem(file)
<1> SUFFICES ASSUME Normalizes(file)
             PROVE  \E n \in AllowedEpsg : \A c \in Candidates(file) : c.epsg = n
  BY DEF OneReferenceSystem
<1> DEFINE All == UNION {Resolved(file, l) : l \in Accepted(file)}
<1>1. All \subseteq AllowedEpsg
  <2>1. \A row : CrsIssues(row) = {} => row.id \in AllowedEpsg
    BY DEF CrsIssues
  <2> QED BY <2>1 DEF Resolved
<1>2. IsFiniteSet(AllowedEpsg) /\ IsFiniteSet(All)
  <2>1. IsFiniteSet(AllowedEpsg)
    <3> DEFINE wgs == 4326
               utm == 25832
    <3>1. AllowedEpsg = {wgs, utm}
      BY DEF AllowedEpsg
    <3> HIDE DEF wgs, utm
    <3> QED BY <3>1, PairCardinality
  <2> QED BY <1>1, <2>1, FS_Subset
<1>3. \A c \in Candidates(file) : c.epsg \in All
  BY DEF Candidates, CandidatesOf
<1>4. ~(Cardinality(All) > 1)
  <2>1. Issue("mixed_crs", Cardinality(All) > 1) = {}
    BY NormalizedFile DEF ContentIssues
  <2> QED BY <2>1 DEF Issue
<1> HIDE DEF All
<1>5. \A m, n \in All : m = n
  <2> SUFFICES ASSUME NEW m \in All, NEW n \in All, m # n PROVE FALSE
    OBVIOUS
  <2>1. IsFiniteSet({m, n}) /\ Cardinality({m, n}) = 2
    BY PairCardinality
  <2>2. Cardinality({m, n}) <= Cardinality(All)
    BY <1>2, FS_Subset
  <2> QED BY <1>2, <1>4, <2>1, <2>2, FS_CardinalityType
<1>6. PICK c \in Candidates(file) : TRUE
  BY NormalizedFile
<1> QED BY <1>1, <1>3, <1>5, <1>6

-----------------------------------------------------------------------------
(***************************************************************************)
(* Imports that are whole.                                                 *)
(***************************************************************************)

(* Two sets whose members correspond one to one are of the same size.      *)
LEMMA SameSize ==
    ASSUME NEW S, NEW T, NEW f \in [S -> T], IsFiniteSet(T),
           \A x, y \in S : f[x] = f[y] => x = y,
           \A z \in T : \E x \in S : f[x] = z
    PROVE  IsFiniteSet(S) /\ Cardinality(S) = Cardinality(T)
<1>1. f \in Injection(S, T) /\ f \in Surjection(S, T)
  BY DEF Injection, Surjection, IsInjective
<1> QED BY <1>1, FS_Injection

LEMMA FiniteImage ==
    ASSUME NEW S, NEW f, IsFiniteSet(S)
    PROVE  IsFiniteSet({f[x] : x \in S})
<1> DEFINE T == {f[x] : x \in S}
           g == [x \in S |-> f[x]]
<1>1. g \in Surjection(S, T)
  BY DEF Surjection
<1> QED BY <1>1, FS_Surjection

(* A union of finite sets, one for each member of a finite set.            *)
LEMMA FiniteUnion ==
    ASSUME NEW S, NEW f, IsFiniteSet(S), \A x \in S : IsFiniteSet(f[x])
    PROVE  IsFiniteSet(UNION {f[x] : x \in S})
<1>1. IsFiniteSet({f[x] : x \in S})
  BY FiniteImage
<1> QED BY <1>1, FS_UNION

LEMMA RowsFinite ==
    ASSUME NEW layers, IsFiniteSet(layers), \A l \in layers : IsFiniteSet(l.features)
    PROVE  IsFiniteSet(RowsOf(layers))
<1> DEFINE rows == [l \in layers |-> {<<l.name, f.index>> : f \in l.features}]
<1>1. ASSUME NEW l \in layers PROVE IsFiniteSet(rows[l])
  <2> DEFINE row == [f \in l.features |-> <<l.name, f.index>>]
  <2>1. IsFiniteSet({row[f] : f \in l.features})
    BY FiniteImage
  <2>2. rows[l] = {row[f] : f \in l.features}
    OBVIOUS
  <2> QED BY <2>1, <2>2
<1>2. RowsOf(layers) = UNION {rows[l] : l \in layers}
  BY DEF RowsOf
<1> HIDE DEF rows
<1> QED BY <1>1, <1>2, FiniteUnion

(* An accepted layer has a reference system, and a row without issues a code. *)
LEMMA AcceptedLayer ==
    ASSUME NEW file, NEW l \in Accepted(file)
    PROVE  l \in file.layers /\ Resolved(file, l) # {}
<1>1. l \in file.layers /\ LayerIssues(file, l) = {}
  BY DEF Accepted
<1>2. Examined(l)
  BY <1>1 DEF LayerIssues
<1>3. SrsIssues(file, l) \subseteq LayerIssues(file, l)
  BY <1>2 DEF LayerIssues
<1>4. SrsIssues(file, l) = {}
  BY <1>1, <1>3
<1>5. /\ Issue("srs_not_found", l.srs \cap DOMAIN file.srs = {}) = {}
      /\ \A k \in l.srs \cap DOMAIN file.srs : CrsIssues(file.srs[k]) = {}
  BY <1>4 DEF SrsIssues
<1>6. PICK k \in l.srs \cap DOMAIN file.srs : TRUE
  BY <1>5 DEF Issue
<1>7. file.srs[k].id \in Resolved(file, l)
  BY <1>5 DEF Resolved
<1> QED BY <1>1, <1>7

LEMMA SoundFeature ==
    ASSUME NEW l, NEW f, FeatureIssues(l, f) = {}
    PROVE  f.code # {}
<1>1. Issue("missing_object_code", f.code = {}) = {}
  BY DEF FeatureIssues
<1> QED BY <1>1 DEF Issue

(* A candidate comes from a row of an accepted layer.                      *)
LEMMA CandidateOrigin ==
    ASSUME NEW file, NEW c \in Candidates(file)
    PROVE  \E l \in Accepted(file) : \E f \in l.features :
               /\ c.code \in f.code /\ c.type = ObjectType[l.name] /\ c.layer = l.name
               /\ c.epsg \in Resolved(file, l) /\ c.index = f.index
               /\ c.attributes = (l.fields \cap AllowedFields) \ RequiredFields
               /\ c = [code |-> c.code, type |-> c.type, layer |-> c.layer, epsg |-> c.epsg,
                       index |-> c.index, attributes |-> c.attributes]
<1>1. PICK l \in Accepted(file) : c \in CandidatesOf(file, l)
  BY DEF Candidates
<1>2. PICK x \in (UNION {g.code : g \in l.features}) \X Resolved(file, l) \X l.features :
        /\ x[1] \in x[3].code
        /\ c = [code |-> x[1], type |-> ObjectType[l.name], layer |-> l.name, epsg |-> x[2],
                index |-> x[3].index,
                attributes |-> (l.fields \cap AllowedFields) \ RequiredFields]
  BY <1>1 DEF CandidatesOf
<1>3. x[2] \in Resolved(file, l) /\ x[3] \in l.features
  OBVIOUS
<1> QED BY <1>2, <1>3

(* Rows, candidates and codes correspond one to one.                       *)
LEMMA RowsBecomeObjects ==
    ASSUME NEW file, IsFile(file), Normalizes(file)
    PROVE  /\ {<<c.layer, c.index>> : c \in Candidates(file)} = RowsOf(Accepted(file))
           /\ Cardinality(ObjectCodes(file)) = Cardinality(RowsOf(Accepted(file)))
<1> DEFINE Cand == Candidates(file)
           Rows == RowsOf(Accepted(file))
           place == [c \in Cand |-> <<c.layer, c.index>>]
           code == [c \in Cand |-> c.code]
<1>1. NormalizeIssues(file) = {}
  BY NormalizedFile
<1>2. ASSUME NEW l \in Accepted(file), NEW f \in l.features PROVE FeatureIssues(l, f) = {}
  <2>1. UNION {UNION {FeatureIssues(k, g) : g \in k.features} : k \in Accepted(file)}
          \subseteq NormalizeIssues(file)
    BY DEF NormalizeIssues
  <2>2. UNION {FeatureIssues(l, g) : g \in l.features} \subseteq NormalizeIssues(file)
    BY <2>1
  <2>3. FeatureIssues(l, f) \subseteq NormalizeIssues(file)
    BY <2>2
  <2> QED BY <1>1, <2>3
<1>3. \A c, d \in Cand : c.code = d.code => c = d
  <2>1. Issue("object_code_duplicate", \E c, d \in Cand : c # d /\ c.code = d.code) = {}
    BY <1>1 DEF NormalizeIssues
  <2> QED BY <2>1 DEF Issue
<1>4. \A c \in Cand : <<c.layer, c.index>> \in Rows
  BY CandidateOrigin DEF RowsOf
<1>5. ASSUME NEW l \in Accepted(file), NEW f \in l.features
      PROVE  \E c \in Cand : c.layer = l.name /\ c.index = f.index
  <2>1. PICK k \in f.code : TRUE
    BY <1>2, SoundFeature
  <2>2. PICK n \in Resolved(file, l) : TRUE
    BY AcceptedLayer
  <2> DEFINE x == <<k, n, f>>
             c == [code |-> x[1], type |-> ObjectType[l.name], layer |-> l.name, epsg |-> x[2],
                   index |-> x[3].index,
                   attributes |-> (l.fields \cap AllowedFields) \ RequiredFields]
  <2>3. x \in {y \in (UNION {g.code : g \in l.features}) \X Resolved(file, l) \X l.features :
                  y[1] \in y[3].code /\ FeatureIssues(l, y[3]) = {}}
    BY <1>2, <2>1, <2>2
  <2>4. c \in CandidatesOf(file, l)
    BY <2>3 DEF CandidatesOf
  <2> QED BY <2>4 DEF Candidates
<1>6. \A r \in Rows : \E c \in Cand : <<c.layer, c.index>> = r
  BY <1>5 DEF RowsOf
<1>7. {<<c.layer, c.index>> : c \in Cand} = Rows
  BY <1>4, <1>6
<1>8. \A l \in Accepted(file) : l \in file.layers /\ IsLayer(l)
  BY DEF Accepted, IsFile
<1>9. ASSUME NEW c \in Cand, NEW d \in Cand, <<c.layer, c.index>> = <<d.layer, d.index>>
      PROVE  c = d
  <2>1. PICK l \in Accepted(file) : \E f \in l.features :
           c.code \in f.code /\ c.layer = l.name /\ c.index = f.index
    BY CandidateOrigin
  <2>2. PICK f \in l.features : c.code \in f.code /\ c.index = f.index
    BY <2>1
  <2>3. PICK k \in Accepted(file) : \E g \in k.features :
           d.code \in g.code /\ d.layer = k.name /\ d.index = g.index
    BY CandidateOrigin
  <2>4. PICK g \in k.features : d.code \in g.code /\ d.index = g.index
    BY <2>3
  <2>5. l = k
    BY <1>8, <1>9, <2>1, <2>3 DEF IsFile
  <2>6. f = g
    BY <1>8, <1>9, <2>2, <2>4, <2>5 DEF IsLayer
  <2>7. c.code = d.code
    BY <1>8, <2>2, <2>4, <2>6 DEF IsLayer, AtMostOne
  <2> QED BY <1>3, <2>7
<1>10. IsFiniteSet(Rows)
  <2>1. IsFiniteSet(Accepted(file))
    BY FS_Subset DEF Accepted, IsFile
  <2> QED BY <1>8, <2>1, RowsFinite DEF IsLayer
<1>11. IsFiniteSet(Cand) /\ Cardinality(Cand) = Cardinality(Rows)
  <2>1. place \in [Cand -> Rows]
    BY <1>4
  <2>2. /\ \A c, d \in Cand : place[c] = place[d] => c = d
        /\ \A r \in Rows : \E c \in Cand : place[c] = r
    BY <1>6, <1>9
  <2> HIDE DEF place, Cand, Rows
  <2> QED BY <1>10, <2>1, <2>2, SameSize
<1>12. Cardinality(ObjectCodes(file)) = Cardinality(Cand)
  <2>1. code \in Bijection(Cand, ObjectCodes(file))
    BY <1>3 DEF Bijection, Injection, Surjection, IsInjective, ObjectCodes
  <2>2. ExistsBijection(Cand, ObjectCodes(file))
    BY <2>1 DEF ExistsBijection
  <2> QED BY <1>11, <2>2, FS_Bijection
<1> QED BY <1>7, <1>11, <1>12

(* So what is missing are the rows of the other layers: no two layers have  *)
(* one name.                                                               *)
LEMMA OthersAreMissing ==
    ASSUME NEW file, IsFile(file) PROVE OnlyRejectedLayersAreMissing(file)
<1> SUFFICES ASSUME Normalizes(file) PROVE OnlyRejectedLayersAreMissing(file)
  BY DEF OnlyRejectedLayersAreMissing
<1> DEFINE imported == {<<c.layer, c.index>> : c \in Candidates(file)}
<1>1. /\ imported = RowsOf(Accepted(file))
      /\ Cardinality(ObjectCodes(file)) = Cardinality(imported)
  BY RowsBecomeObjects
<1> DEFINE rejected == {s.name : s \in {t \in LayerSummary(file) : ~t.accepted}}
<1>8. {l \in file.layers : l.name \in rejected} = file.layers \ Accepted(file)
  <2>1. ASSUME NEW l \in file.layers \ Accepted(file) PROVE l.name \in rejected
    <3> DEFINE s == [name |-> l.name, whitelisted |-> Whitelisted(l),
                     accepted |-> l \in Accepted(file)]
    <3>1. s \in LayerSummary(file) /\ ~s.accepted /\ s.name = l.name
      BY <2>1 DEF LayerSummary
    <3> QED BY <3>1
  <2>2. ASSUME NEW l \in file.layers, l.name \in rejected PROVE l \notin Accepted(file)
    <3>1. PICK s \in LayerSummary(file) : ~s.accepted /\ s.name = l.name
      BY <2>2
    <3>2. PICK k \in file.layers :
             s = [name |-> k.name, whitelisted |-> Whitelisted(k), accepted |-> k \in Accepted(file)]
      BY <3>1 DEF LayerSummary
    <3>3. k = l
      BY <3>1, <3>2 DEF IsFile
    <3> QED BY <3>1, <3>2, <3>3
  <2> QED BY <2>1, <2>2
<1> HIDE DEF imported, rejected
<1>2. Accepted(file) \subseteq file.layers
  BY DEF Accepted
<1>3. \A layers : \A row \in RowsOf(layers) :
          \E l \in layers : row[1] = l.name /\ \E f \in l.features : row = <<l.name, f.index>>
  BY DEF RowsOf
<1>4. ASSUME NEW row \in RowsOf(file.layers), row \notin imported
      PROVE  row \in RowsOf(file.layers \ Accepted(file))
  <2>1. PICK l \in file.layers : \E f \in l.features : row = <<l.name, f.index>>
    BY <1>3
  <2>2. l \notin Accepted(file)
    BY <1>1, <1>4, <2>1 DEF RowsOf
  <2> QED BY <2>1, <2>2 DEF RowsOf
<1>5. ASSUME NEW row \in RowsOf(file.layers \ Accepted(file))
      PROVE  row \in RowsOf(file.layers) /\ row \notin imported
  <2>1. PICK l \in file.layers \ Accepted(file) :
            row[1] = l.name /\ \E f \in l.features : row = <<l.name, f.index>>
    BY <1>3
  <2>2. row \in RowsOf(file.layers)
    BY <2>1 DEF RowsOf
  <2>3. ASSUME row \in imported PROVE FALSE
    <3>1. PICK k \in Accepted(file) : row[1] = k.name
      BY <1>1, <1>3, <2>3
    <3> QED BY <1>2, <2>1, <3>1 DEF IsFile
  <2> QED BY <2>2, <2>3
<1>6. imported \subseteq RowsOf(file.layers)
  BY <1>1, <1>2 DEF RowsOf
<1>7. RowsOf(file.layers) \ imported = RowsOf(file.layers \ Accepted(file))
  BY <1>4, <1>5
<1> QED BY <1>1, <1>6, <1>7, <1>8 DEF OnlyRejectedLayersAreMissing, imported, rejected

(* The features of the usable layers that have a place, with their layers' *)
(* names: what becomes objects.                                            *)
KeptFeatures(layers) ==
    UNION {{l.name} \X {f \in l.features : Placed(f)} : l \in {k \in layers : Usable(k)}}

LEMMA FeaturesFinite ==
    ASSUME NEW layers, HasLayers(layers) PROVE IsFiniteSet(FeaturesOf(layers))
<1> DEFINE pairs == [l \in layers |-> {l.name} \X l.features]
<1>1. ASSUME NEW l \in layers PROVE IsFiniteSet(pairs[l])
  <2>1. IsFiniteSet({l.name}) /\ IsFiniteSet(l.features)
    BY FS_Singleton DEF HasLayers
  <2>2. IsFiniteSet({l.name} \X l.features)
    BY <2>1, FS_Product
  <2> QED BY <2>2
<1>2. FeaturesOf(layers) = UNION {pairs[l] : l \in layers}
  BY DEF FeaturesOf
<1>3. IsFiniteSet(layers)
  BY DEF HasLayers
<1> HIDE DEF pairs
<1> QED BY <1>1, <1>2, <1>3, FiniteUnion

(* Membership in the two sets of features.                                 *)
LEMMA KeptOf ==
    ASSUME NEW layers
    PROVE  /\ KeptFeatures(layers) \subseteq FeaturesOf(layers)
           /\ \A l \in layers : \A f \in l.features :
                  Usable(l) /\ Placed(f) => <<l.name, f>> \in KeptFeatures(layers)
           /\ \A q \in KeptFeatures(layers) :
                  \E l \in layers : \E f \in l.features :
                      Usable(l) /\ Placed(f) /\ q = <<l.name, f>>
           /\ \A q \in FeaturesOf(layers) :
                  \E l \in layers : \E f \in l.features : q = <<l.name, f>>
           /\ \A l \in layers : \A f \in l.features : <<l.name, f>> \in FeaturesOf(layers)
<1>1. \A l \in layers : \A f \in l.features :
          Usable(l) /\ Placed(f) => <<l.name, f>> \in KeptFeatures(layers)
  BY DEF KeptFeatures
<1>2. \A q \in KeptFeatures(layers) :
          \E l \in layers : \E f \in l.features :
              Usable(l) /\ Placed(f) /\ q = <<l.name, f>>
  BY DEF KeptFeatures
<1>3. \A q \in FeaturesOf(layers) : \E l \in layers : \E f \in l.features : q = <<l.name, f>>
  BY DEF FeaturesOf
<1>4. \A l \in layers : \A f \in l.features : <<l.name, f>> \in FeaturesOf(layers)
  BY DEF FeaturesOf
<1>5. KeptFeatures(layers) \subseteq FeaturesOf(layers)
  BY <1>2, <1>4
<1> QED BY <1>1, <1>2, <1>3, <1>4, <1>5

(* Objects from two layers have different types, objects of one layer      *)
(* different places; so no two features become the same object.            *)
LEMMA ObjectsCounted ==
    ASSUME NEW p, HasLayers(p.layers)
    PROVE  /\ IsFiniteSet(KeptFeatures(p.layers))
           /\ Cardinality(JsonObjects(p)) = Cardinality(KeptFeatures(p.layers))
<1> DEFINE Kept == KeptFeatures(p.layers)
           Named(n) == CHOOSE l \in p.layers : l.name = n
           object == [q \in Kept |-> ObjectOf(p, Named(q[1]), q[2])]
<1>1. IsFiniteSet(Kept)
  BY KeptOf, FeaturesFinite, FS_Subset
<1>2. \A l \in p.layers : Named(l.name) = l
  BY DEF HasLayers
<1>3. ASSUME NEW q \in Kept
      PROVE  \E l \in p.layers : \E f \in l.features :
                 /\ Usable(l) /\ Placed(f) /\ q = <<l.name, f>>
                 /\ Named(q[1]) = l /\ object[q] = ObjectOf(p, l, f)
  <2>1. PICK l \in p.layers : \E f \in l.features : Usable(l) /\ Placed(f) /\ q = <<l.name, f>>
    BY KeptOf
  <2>2. PICK f \in l.features : Usable(l) /\ Placed(f) /\ q = <<l.name, f>>
    BY <2>1
  <2>3. Named(q[1]) = l /\ q[2] = f
    BY <1>2, <2>2
  <2>4. object[q] = ObjectOf(p, l, f)
    BY <2>3
  <2> QED BY <2>2, <2>3, <2>4
<1>4. ASSUME NEW l \in p.layers, NEW f \in l.features, Usable(l), Placed(f)
      PROVE  \E q \in Kept : object[q] = ObjectOf(p, l, f)
  <2>1. PICK q \in Kept : q = <<l.name, f>>
    BY <1>4, KeptOf
  <2>2. q[1] = l.name /\ q[2] = f
    BY <2>1
  <2>3. object[q] = ObjectOf(p, Named(q[1]), q[2])
    OBVIOUS
  <2>4. Named(q[1]) = l
    BY <1>2, <2>2
  <2> QED BY <2>2, <2>3, <2>4
<1> HIDE DEF Kept, object, Named
<1>5. \A q \in Kept : object[q] \in JsonObjects(p)
  BY <1>3 DEF JsonObjects
<1>6. \A o \in JsonObjects(p) : \E q \in Kept : object[q] = o
  BY <1>4 DEF JsonObjects
<1>7. ASSUME NEW q \in Kept, NEW r \in Kept, object[q] = object[r]
      PROVE  q = r
  <2>1. PICK l \in p.layers : \E f \in l.features :
           Usable(l) /\ q = <<l.name, f>> /\ object[q] = ObjectOf(p, l, f)
    BY <1>3
  <2>2. PICK f \in l.features : q = <<l.name, f>> /\ object[q] = ObjectOf(p, l, f)
    BY <2>1
  <2>3. PICK k \in p.layers : \E g \in k.features :
           Usable(k) /\ r = <<k.name, g>> /\ object[r] = ObjectOf(p, k, g)
    BY <1>3
  <2>4. PICK g \in k.features : r = <<k.name, g>> /\ object[r] = ObjectOf(p, k, g)
    BY <2>3
  <2>5. LayerTypes[l.name] = LayerTypes[k.name] /\ f.place = g.place
    <3>1. \A m, h : ObjectOf(p, m, h).type = LayerTypes[m.name] /\ ObjectOf(p, m, h).place = h.place
      BY DEF ObjectOf
    <3> QED BY <1>7, <2>2, <2>4, <3>1
  <2>6. l.name = k.name
    <3>1. l.name \in DOMAIN LayerTypes /\ k.name \in DOMAIN LayerTypes
      BY <2>1, <2>3 DEF Usable
    <3> QED BY <2>5, <3>1 DEF LayerTypes
  <2>7. l = k
    BY <2>6 DEF HasLayers
  <2>8. f = g
    BY <2>5, <2>7 DEF HasLayers
  <2> QED BY <2>2, <2>4, <2>7, <2>8
<1> DEFINE code == [q \in Kept |-> object[q]]
<1>8. code \in Bijection(Kept, JsonObjects(p))
  BY <1>5, <1>6, <1>7 DEF Bijection, Injection, Surjection, IsInjective
<1>9. ExistsBijection(Kept, JsonObjects(p))
  BY <1>8 DEF ExistsBijection
<1>10. Cardinality(JsonObjects(p)) = Cardinality(Kept)
  BY <1>1, <1>9, FS_Bijection
<1> QED BY <1>1, <1>10 DEF Kept

(* So as many objects as features means that every feature was kept.       *)
LEMMA FewerObjects ==
    ASSUME NEW p, HasLayers(p.layers)
    PROVE  /\ Cardinality(JsonObjects(p)) = Cardinality(FeaturesOf(p.layers))
                 <=> KeptFeatures(p.layers) = FeaturesOf(p.layers)
           /\ Cardinality(JsonObjects(p)) <= Cardinality(FeaturesOf(p.layers))
           /\ Cardinality(JsonObjects(p)) \in Nat /\ Cardinality(FeaturesOf(p.layers)) \in Nat
<1>1. IsFiniteSet(FeaturesOf(p.layers)) /\ IsFiniteSet(KeptFeatures(p.layers))
  BY FeaturesFinite, ObjectsCounted
<1>2. KeptFeatures(p.layers) \in SUBSET FeaturesOf(p.layers)
  BY KeptOf
<1>3. /\ Cardinality(KeptFeatures(p.layers)) <= Cardinality(FeaturesOf(p.layers))
      /\ Cardinality(FeaturesOf(p.layers)) = Cardinality(KeptFeatures(p.layers))
           => FeaturesOf(p.layers) = KeptFeatures(p.layers)
  BY <1>1, <1>2, FS_Subset
<1>4. Cardinality(KeptFeatures(p.layers)) \in Nat /\ Cardinality(FeaturesOf(p.layers)) \in Nat
  BY <1>1, FS_CardinalityType
<1> QED BY <1>3, <1>4, ObjectsCounted

(* A feature that is kept is kept in the one layer that has its name.      *)
LEMMA KeptInItsLayer ==
    ASSUME NEW layers, HasLayers(layers), NEW l \in layers, NEW f \in l.features,
           <<l.name, f>> \in KeptFeatures(layers)
    PROVE  Usable(l) /\ Placed(f)
<1>1. PICK k \in layers : \E g \in k.features :
         Usable(k) /\ Placed(g) /\ <<l.name, f>> = <<k.name, g>>
  BY KeptOf
<1> QED BY <1>1 DEF HasLayers

(* A package without warnings has nothing that was skipped.                *)
LEMMA WarningsOf ==
    ASSUME NEW p
    PROVE  JsonWarnings(p) = {} <=>
               /\ \A l \in p.layers : Usable(l)
               /\ \A l \in p.layers : \A f \in l.features : Placed(f)
<1>1. JsonWarnings(p) = {} <=>
        /\ {l.name : l \in {k \in p.layers : ~Usable(k)}} = {}
        /\ UNION {{f.place : f \in {g \in l.features : ~Placed(g)}} :
                      l \in {k \in p.layers : Usable(k)}} = {}
  BY DEF JsonWarnings
<1>2. {l.name : l \in {k \in p.layers : ~Usable(k)}} = {} <=> \A l \in p.layers : Usable(l)
  OBVIOUS
<1>3. UNION {{f.place : f \in {g \in l.features : ~Placed(g)}} :
                 l \in {k \in p.layers : Usable(k)}} = {}
        <=> \A l \in p.layers : Usable(l) => \A f \in l.features : Placed(f)
  <2>1. ASSUME NEW l \in p.layers, Usable(l), NEW f \in l.features, ~Placed(f)
        PROVE  f.place \in UNION {{h.place : h \in {g \in k.features : ~Placed(g)}} :
                                  k \in {j \in p.layers : Usable(j)}}
    BY <2>1
  <2> QED BY <2>1
<1> QED BY <1>1, <1>2, <1>3

LEMMA CompletedPackages ==
    ASSUME NEW p, HasLayers(p.layers) PROVE CompletedMeansEverything(p)
<1>1. ASSUME ImportStatus(p) = "completed"
      PROVE  Cardinality(JsonObjects(p)) = Cardinality(FeaturesOf(p.layers))
  <2>1. \A l \in p.layers : Usable(l) /\ \A f \in l.features : Placed(f)
    BY <1>1, WarningsOf DEF ImportStatus
  <2>2. KeptFeatures(p.layers) = FeaturesOf(p.layers)
    BY <2>1, KeptOf
  <2> QED BY <2>2, FewerObjects
<1>2. ASSUME ImportStatus(p) # "completed"
      PROVE  \/ Cardinality(JsonObjects(p)) < Cardinality(FeaturesOf(p.layers))
             \/ \E l \in p.layers : ~Usable(l) /\ l.features = {}
  <2>1. ~ \A l \in p.layers : Usable(l) /\ \A f \in l.features : Placed(f)
    BY <1>2, WarningsOf DEF ImportStatus
  <2>2. \/ \E l \in p.layers : ~Usable(l) /\ l.features = {}
        \/ \E l \in p.layers : \E f \in l.features : ~Usable(l) \/ ~Placed(f)
    BY <2>1
  <2>3. ASSUME NEW l \in p.layers, NEW f \in l.features, ~Usable(l) \/ ~Placed(f)
        PROVE  Cardinality(JsonObjects(p)) < Cardinality(FeaturesOf(p.layers))
    <3>1. <<l.name, f>> \in FeaturesOf(p.layers) /\ <<l.name, f>> \notin KeptFeatures(p.layers)
      BY <2>3, KeptOf, KeptInItsLayer
    <3> QED BY <3>1, FewerObjects
  <2> QED BY <2>2, <2>3
<1> QED BY <1>1, <1>2 DEF CompletedMeansEverything

(* What is handed on of a derivative.                                      *)
LEMMA DerivedLayersOf ==
    ASSUME NEW d, HasLayers(d.layers)
    PROVE  /\ HasLayers(DerivedLayers(d)) /\ HasLayers(DerivedPackage(d).layers)
           /\ \A l \in DerivedPackage(d).layers :
                  /\ Usable(l)
                  /\ \E k \in DerivedLayers(d) : l.name = k.name /\ l.features = KeptRows(k)
           /\ \A k \in DerivedLayers(d) : KeptRows(k) # {} =>
                  \E l \in DerivedPackage(d).layers : l.name = k.name /\ l.features = KeptRows(k)
<1> DEFINE Passed(k) == [name |-> k.name, wellFormed |-> TRUE, features |-> KeptRows(k)]
           Kept == {k \in DerivedLayers(d) : KeptRows(k) # {}}
           passed == [k \in Kept |-> Passed(k)]
<1>1. DerivedPackage(d).layers = {Passed(k) : k \in Kept}
  BY DEF DerivedPackage
<1>2. HasLayers(DerivedLayers(d))
  <2>1. DerivedLayers(d) \in SUBSET d.layers
    BY DEF DerivedLayers
  <2>2. IsFiniteSet(DerivedLayers(d))
    BY <2>1, FS_Subset DEF HasLayers
  <2> QED BY <2>1, <2>2 DEF HasLayers
<1>3. \A k \in DerivedLayers(d) : k.name \in DOMAIN LayerTypes
  BY DEF DerivedLayers
<1>4. \A k \in Kept :
        /\ Passed(k).name = k.name /\ Passed(k).features = KeptRows(k)
        /\ Usable(Passed(k))
  BY <1>3 DEF Usable
<1>5. IsFiniteSet({Passed(k) : k \in Kept})
  <2>1. IsFiniteSet(Kept)
    BY <1>2, FS_Subset DEF HasLayers
  <2>2. IsFiniteSet({passed[k] : k \in Kept})
    BY <2>1, FiniteImage
  <2>3. {passed[k] : k \in Kept} = {Passed(k) : k \in Kept}
    OBVIOUS
  <2> QED BY <2>2, <2>3
<1>6. \A k \in Kept :
        /\ IsFiniteSet(KeptRows(k))
        /\ \A f, g \in KeptRows(k) : f.place = g.place => f = g
        /\ \A f \in KeptRows(k) : AtMostOne(f.code)
  <2> SUFFICES ASSUME NEW k \in Kept
               PROVE  /\ IsFiniteSet(KeptRows(k))
                      /\ \A f, g \in KeptRows(k) : f.place = g.place => f = g
                      /\ \A f \in KeptRows(k) : AtMostOne(f.code)
    OBVIOUS
  <2>1. KeptRows(k) \in SUBSET k.features
    BY DEF KeptRows
  <2>2. /\ IsFiniteSet(k.features)
        /\ \A f, g \in k.features : f.place = g.place => f = g
        /\ \A f \in k.features : AtMostOne(f.code)
    BY <1>2 DEF HasLayers
  <2>3. IsFiniteSet(KeptRows(k))
    BY <2>1, <2>2, FS_Subset
  <2> QED BY <2>1, <2>2, <2>3
<1>7. \A j, k \in Kept : j.name = k.name => j = k
  BY <1>2 DEF HasLayers
<1> HIDE DEF passed, Passed, Kept
<1>8. HasLayers(DerivedPackage(d).layers)
  BY <1>1, <1>4, <1>5, <1>6, <1>7 DEF HasLayers
<1>9. \A k \in Kept : k \in DerivedLayers(d)
  BY DEF Kept
<1>10. \A k \in DerivedLayers(d) : KeptRows(k) # {} => k \in Kept
  BY DEF Kept
<1> QED BY <1>1, <1>2, <1>4, <1>8, <1>9, <1>10

LEMMA CompletedDerivatives ==
    ASSUME NEW d, HasLayers(d.layers) PROVE DerivedMeansEverything(d)
<1> DEFINE p == DerivedPackage(d)
           All == FeaturesOf(DerivedLayers(d))
<1>1. /\ HasLayers(DerivedLayers(d)) /\ HasLayers(p.layers)
      /\ \A l \in p.layers :
             /\ Usable(l)
             /\ \E k \in DerivedLayers(d) : l.name = k.name /\ l.features = KeptRows(k)
      /\ \A k \in DerivedLayers(d) : KeptRows(k) # {} =>
             \E l \in p.layers : l.name = k.name /\ l.features = KeptRows(k)
  BY DerivedLayersOf
<1> HIDE DEF p
<1>2. \A f : Placed(f) => f.geometry # "unreadable"
  BY DEF Placed
<1>3. KeptFeatures(p.layers) \subseteq All
  <2> SUFFICES ASSUME NEW q \in KeptFeatures(p.layers) PROVE q \in All
    OBVIOUS
  <2>1. PICK l \in p.layers : \E f \in l.features : q = <<l.name, f>>
    BY KeptOf
  <2>2. PICK f \in l.features : q = <<l.name, f>>
    BY <2>1
  <2>3. PICK k \in DerivedLayers(d) : l.name = k.name /\ l.features = KeptRows(k)
    BY <1>1
  <2> QED BY <2>2, <2>3, KeptOf DEF KeptRows
<1>4. IsFiniteSet(All)
  BY <1>1, FeaturesFinite
<1>5. Cardinality(JsonObjects(p)) = Cardinality(All) <=> KeptFeatures(p.layers) = All
  <2>1. IsFiniteSet(KeptFeatures(p.layers))
        /\ Cardinality(JsonObjects(p)) = Cardinality(KeptFeatures(p.layers))
    BY <1>1, ObjectsCounted
  <2>2. Cardinality(All) = Cardinality(KeptFeatures(p.layers)) => All = KeptFeatures(p.layers)
    BY <1>3, <1>4, FS_Subset
  <2> QED BY <2>1, <2>2
<1>6. DerivedStatus(d) = "completed" <=>
        /\ \A k \in DerivedLayers(d) : KeptRows(k) = k.features
        /\ \A l \in p.layers : \A f \in l.features : Placed(f)
  BY <1>1, WarningsOf DEF DerivedStatus, ImportStatus, p
<1>7. (\A k \in DerivedLayers(d) : \A f \in k.features : Placed(f))
        <=> KeptFeatures(p.layers) = All
  <2>1. ASSUME \A k \in DerivedLayers(d) : \A f \in k.features : Placed(f), NEW q \in All
        PROVE  q \in KeptFeatures(p.layers)
    <3>1. PICK k \in DerivedLayers(d) : \E f \in k.features : q = <<k.name, f>>
      BY KeptOf
    <3>2. PICK f \in k.features : q = <<k.name, f>>
      BY <3>1
    <3>3. f \in KeptRows(k) /\ Placed(f)
      BY <1>2, <2>1 DEF KeptRows
    <3>4. PICK l \in p.layers : l.name = k.name /\ l.features = KeptRows(k)
      BY <1>1, <3>3
    <3> QED BY <1>1, <3>2, <3>3, <3>4, KeptOf
  <2>2. ASSUME KeptFeatures(p.layers) = All, NEW k \in DerivedLayers(d), NEW f \in k.features
        PROVE  Placed(f)
    <3>1. <<k.name, f>> \in KeptFeatures(p.layers)
      BY <2>2, KeptOf
    <3>2. PICK l \in p.layers : \E g \in l.features : Placed(g) /\ <<k.name, f>> = <<l.name, g>>
      BY <3>1, KeptOf
    <3> QED BY <3>2
  <2> QED BY <1>3, <2>1, <2>2
<1>8. DerivedStatus(d) = "completed"
        <=> \A k \in DerivedLayers(d) : \A f \in k.features : Placed(f)
  <2>1. ASSUME \A k \in DerivedLayers(d) : KeptRows(k) = k.features,
               \A l \in p.layers : \A f \in l.features : Placed(f),
               NEW k \in DerivedLayers(d), NEW f \in k.features
        PROVE  Placed(f)
    <3>1. PICK l \in p.layers : l.features = KeptRows(k)
      BY <1>1, <2>1
    <3> QED BY <2>1, <3>1
  <2>2. ASSUME \A k \in DerivedLayers(d) : \A f \in k.features : Placed(f)
        PROVE  /\ \A k \in DerivedLayers(d) : KeptRows(k) = k.features
               /\ \A l \in p.layers : \A f \in l.features : Placed(f)
    BY <1>1, <1>2, <2>2 DEF KeptRows
  <2> QED BY <1>6, <2>1, <2>2
<1> QED BY <1>5, <1>7, <1>8 DEF DerivedMeansEverything, p

-----------------------------------------------------------------------------
(***************************************************************************)
(* Scores.  A sum over a finite set is what a function on its subsets says *)
(* of the whole; what holds of every sum is proved by a smallest subset of *)
(* which it would not hold.                                                *)
(***************************************************************************)
Picked(s) == CHOOSE x \in s : TRUE
\* The function that a sum over S is defined by.
Totals(total, f, S) ==
    total = [s \in SUBSET S |-> IF s = {} THEN 0 ELSE f[Picked(s)] + total[s \ {Picked(s)}]]

(* A set of numbers has a least one.                                       *)
LEMMA LeastNumber ==
    ASSUME NEW T \in SUBSET Nat, T # {}
    PROVE  \E n \in T : \A m \in T : ~ (m < n)
<1> DEFINE Upto == {1 .. n : n \in T}
<1>1. Upto \subseteq FiniteSubsetsOf(Nat) /\ Upto # {}
    <2> SUFFICES ASSUME NEW n \in T PROVE 1 .. n \in FiniteSubsetsOf(Nat)
        OBVIOUS
    <2> QED BY FS_Interval DEF FiniteSubsetsOf
<1>2. PICK U \in Upto : \A V \in Upto : ~ (<<V, U>> \in StrictSubsetOrdering(Nat))
    <2> HIDE DEF Upto
    <2> QED BY <1>1, WFMin, FS_StrictSubsetOrderingWellFounded
<1>3. PICK n \in T : U = 1 .. n OBVIOUS
<1>4. ASSUME NEW m \in T, m < n PROVE FALSE
    <2>1. n \in 1 .. n /\ n \notin 1 .. m /\ 1 .. m \subseteq 1 .. n BY <1>4
    <2>2. <<1 .. m, 1 .. n>> \in StrictSubsetOrdering(Nat)
        BY <2>1 DEF StrictSubsetOrdering
    <2> QED BY <1>2, <1>3, <2>2
<1> QED BY <1>4

(* What the sum of the community modules chooses.                          *)
LEMMA SumIsTotal ==
    ASSUME NEW f, NEW S
    PROVE  SumFunctionOnSet(f, S) = (CHOOSE total : Totals(total, f, S))[S]
BY DEF SumFunctionOnSet, FoldFunctionOnSet, MapThenFoldSet, Totals, Picked

(* The choice is of something: of sums of at most n members, by the least n*)
(* without.                                                                *)
LEMMA TotalsExist ==
    ASSUME NEW f, NEW S, IsFiniteSet(S)
    PROVE  \E total : Totals(total, f, S)
<1> DEFINE Next1(g) == [s \in SUBSET S |->
                IF s = {} THEN 0 ELSE f[Picked(s)] + g[s \ {Picked(s)}]]
           UpTo(g, n) == \A s \in SUBSET S : Cardinality(s) <= n => g[s] = Next1(g)[s]
           Bad == {n \in Nat : ~ \E g : UpTo(g, n)}
<1>0. \A s \in SUBSET S : /\ IsFiniteSet(s)
                          /\ Cardinality(s) \in Nat /\ Cardinality(s) <= Cardinality(S)
    BY FS_Subset, FS_CardinalityType
<1>1. 0 \notin Bad
    <2>1. UpTo([s \in SUBSET S |-> 0], 0)
        <3> SUFFICES ASSUME NEW s \in SUBSET S, Cardinality(s) <= 0
                     PROVE  [t \in SUBSET S |-> 0][s] = Next1([t \in SUBSET S |-> 0])[s]
            OBVIOUS
        <3>1. s = {} BY <1>0, FS_EmptySet
        <3> QED BY <3>1
    <2> QED BY <2>1
<1>2. ASSUME NEW n \in Nat, NEW g, UpTo(g, n) PROVE UpTo(Next1(g), n + 1)
    <2> SUFFICES ASSUME NEW s \in SUBSET S, Cardinality(s) <= n + 1
                 PROVE  Next1(g)[s] = Next1(Next1(g))[s]
        OBVIOUS
    <2>1. CASE s = {} BY <2>1
    <2>2. CASE s # {}
        <3> DEFINE rest == s \ {Picked(s)}
        <3>1. Picked(s) \in s BY <2>2 DEF Picked
        <3>2. rest \in SUBSET S /\ Cardinality(rest) <= n
            BY <3>1, <1>0, FS_RemoveElement
        <3>3. g[rest] = Next1(g)[rest] BY <3>2, <1>2
        <3> QED BY <3>2, <3>3, <2>2
    <2> QED BY <2>1, <2>2
<1>3. Bad = {}
    <2> SUFFICES ASSUME Bad # {} PROVE FALSE OBVIOUS
    <2>1. PICK n \in Bad : \A m \in Bad : ~ (m < n) 
        <3> HIDE DEF UpTo
        <3> QED BY LeastNumber
    <2>2. n \in Nat /\ n # 0 BY <1>1, <2>1
    <2>3. n - 1 \in Nat /\ n - 1 < n /\ n = (n - 1) + 1 BY <2>2
    <2>4. n - 1 \notin Bad BY <2>1, <2>3
    <2>5. PICK g : UpTo(g, n - 1) BY <2>3, <2>4
    <2> HIDE DEF UpTo, Next1
    <2>6. UpTo(Next1(g), n) BY <1>2, <2>3, <2>5
    <2> QED BY <2>1, <2>6
<1>4. PICK g : UpTo(g, Cardinality(S)) BY <1>3, <1>0
<1>5. Next1(g) = [s \in SUBSET S |->
         IF s = {} THEN 0 ELSE f[Picked(s)] + Next1(g)[s \ {Picked(s)}]]
    <2> SUFFICES ASSUME NEW s \in SUBSET S, s # {}
                 PROVE  g[s \ {Picked(s)}] = Next1(g)[s \ {Picked(s)}]
        BY Zenon
    <2> QED BY <1>4, <1>0
<1> QED BY <1>5 DEF Totals

(* A sum is the value of some function that is such a total throughout.    *)
LEMMA SumUnfolds ==
    ASSUME NEW f, NEW S, IsFiniteSet(S)
    PROVE  \E total : Totals(total, f, S) /\ SumFunctionOnSet(f, S) = total[S]
<1>1. PICK total : total = (CHOOSE t : Totals(t, f, S)) OBVIOUS
<1>2. Totals(total, f, S) BY <1>1, TotalsExist
<1> QED BY <1>1, <1>2, SumIsTotal

LEMMA DisjointSizes ==
    ASSUME NEW S, IsFiniteSet(S), NEW T, IsFiniteSet(T), S \cap T = {}
    PROVE  Cardinality(S \cup T) = Cardinality(S) + Cardinality(T)
<1>1. Cardinality(S \cup T) = Cardinality(S) + Cardinality(T) - Cardinality(S \cap T)
  BY FS_Union
<1>2. Cardinality(S) \in Nat /\ Cardinality(T) \in Nat /\ Cardinality(S \cap T) = 0
  BY FS_CardinalityType, FS_EmptySet
<1> QED BY <1>1, <1>2

(* The things with one key, and those with a key in a set.                 *)
Fibre(D, key, x) == {c \in D : key[c] = x}
Fibres(D, key, S) == {c \in D : key[c] \in S}

(* Counting things by their keys, and adding the counts, counts them once. *)
LEMMA SumOfFibres ==
    ASSUME NEW D, IsFiniteSet(D), NEW key, NEW S, IsFiniteSet(S), NEW f,
           \A x \in S : f[x] = Cardinality(Fibre(D, key, x))
    PROVE  SumFunctionOnSet(f, S) = Cardinality(Fibres(D, key, S))
<1>1. PICK F : Totals(F, f, S) /\ SumFunctionOnSet(f, S) = F[S] BY SumUnfolds
<1> DEFINE Of(T) == {c \in D : key[c] \in T}
           Bad == {T \in SUBSET S : F[T] # Cardinality(Of(T))}
<1>2. \A T : IsFiniteSet(Of(T)) /\ Cardinality(Of(T)) \in Nat
    <2> SUFFICES ASSUME NEW T PROVE IsFiniteSet(Of(T)) /\ Cardinality(Of(T)) \in Nat
        OBVIOUS
    <2>1. Of(T) \in SUBSET D OBVIOUS
    <2> QED BY <2>1, FS_Subset, FS_CardinalityType
<1>3. ASSUME NEW T \in Bad, \A U \in Bad : ~ (<<U, T>> \in StrictSubsetOrdering(S))
      PROVE  FALSE
    <2>1. T \in SUBSET S /\ F[T] # Cardinality(Of(T)) OBVIOUS
    <2>2. T # {}
        <3> SUFFICES ASSUME T = {} PROVE FALSE OBVIOUS
        <3>1. F[T] = 0 BY <1>1, <2>1 DEF Totals
        <3>2. Of(T) = {} OBVIOUS
        <3>3. Cardinality(Of(T)) = 0 BY <3>2, FS_EmptySet
        <3> QED BY <2>1, <3>1, <3>3
    <2>3. PICK t, U : t = Picked(T) /\ U = T \ {t} OBVIOUS
    <2>4. t \in T /\ t \in S /\ U \in SUBSET S /\ U # T /\ U \subseteq T
        BY <2>1, <2>2, <2>3 DEF Picked
    <2>5. F[T] = f[t] + F[U] BY <1>1, <2>1, <2>2, <2>3 DEF Totals
    <2>6. <<U, T>> \in StrictSubsetOrdering(S) BY <2>1, <2>4 DEF StrictSubsetOrdering
    <2>7. F[U] = Cardinality(Of(U)) BY <1>3, <2>4, <2>6
    <2>8. f[t] = Cardinality(Of({t}))
        <3>1. Of({t}) = Fibre(D, key, t) BY DEF Fibre
        <3> QED BY <2>4, <3>1
    <2>9. Of(T) = Of({t}) \cup Of(U) /\ Of({t}) \cap Of(U) = {}
        BY <2>3, <2>4
    <2> HIDE DEF Of
    <2>10. Cardinality(Of({t}) \cup Of(U)) = Cardinality(Of({t})) + Cardinality(Of(U))
        BY <1>2, <2>9, DisjointSizes
    <2> QED BY <2>1, <2>5, <2>7, <2>8, <2>9, <2>10
<1>4. Bad = {}
    <2> SUFFICES ASSUME Bad # {} PROVE FALSE OBVIOUS
    <2>1. Bad \subseteq SUBSET S OBVIOUS
    <2>2. FiniteSubsetsOf(S) = SUBSET S BY FS_FiniteSubsetsOfFinite
    <2> HIDE DEF Bad
    <2>3. \E T \in Bad : \A U \in Bad : ~ (<<U, T>> \in StrictSubsetOrdering(S))
        BY <2>1, <2>2, WFMin, FS_StrictSubsetOrderingWellFounded
    <2> QED BY <2>3, <1>3
<1>5. F[S] = Cardinality(Of(S)) BY <1>4
<1> QED BY <1>1, <1>5 DEF Fibres

(* A sum over part of the confusion matrix counts the cases in that part.  *)
LEMMA SumOfMatrix ==
    ASSUME NEW truth, NEW predictions, NEW classes, IsFiniteSet(DOMAIN predictions),
           NEW S \in SUBSET (classes \X classes), IsFiniteSet(S)
    PROVE  SumFunctionOnSet(Matrix(truth, predictions, classes), S)
             = Cardinality({c \in DOMAIN predictions : <<truth[c], predictions[c]>> \in S})
<1> DEFINE D == DOMAIN predictions
           key == [c \in D |-> <<truth[c], predictions[c]>>]
           f == Matrix(truth, predictions, classes)
<1>1. ASSUME NEW x \in S PROVE f[x] = Cardinality(Fibre(D, key, x))
    <2>1. f[x] = Cardinality({c \in D : <<truth[c], predictions[c]>> = x})
        BY DEF Matrix
    <2>2. {c \in D : <<truth[c], predictions[c]>> = x} = Fibre(D, key, x)
        BY DEF Fibre
    <2> QED BY <2>1, <2>2
<1>2. Fibres(D, key, S) = {c \in D : <<truth[c], predictions[c]>> \in S}
  BY DEF Fibres
<1> HIDE DEF key, f, D
<1>3. IsFiniteSet(D)
  BY DEF D
<1>4. SumFunctionOnSet(f, S) = Cardinality(Fibres(D, key, S))
  BY <1>1, <1>3, SumOfFibres
<1> QED BY <1>2, <1>4 DEF f, D

(* Support counts the cases by their class; false positives and negatives  *)
(* count the missed ones, by what was said of them and by what they are.   *)
LEMMA CasesCount == ASSUME NEW s \in Scores PROVE CaseCounts(s)
<1> DEFINE truth == s.truth
           predictions == s.predictions
           D == DOMAIN truth
           matrix == Matrix(truth, predictions, Classes)
           count == PerClass(matrix, Classes)
           right == {c \in DOMAIN predictions : predictions[c] = truth[c]}
           missed == D \ right
           total == Cardinality(D)
           wrong == total - Cardinality(right)
<1> SUFFICES ASSUME Scorable(truth, predictions, Classes, s.minimumTotal, s.minimum)
      PROVE  /\ SumFunctionOnSet([class \in Classes |-> count[class].support], Classes) = total
             /\ SumFunctionOnSet([class \in Classes |-> count[class].fp], Classes) = wrong
             /\ SumFunctionOnSet([class \in Classes |-> count[class].fn], Classes) = wrong
             /\ Correct(matrix, Classes) = total - wrong
  BY DEF CaseCounts
<1>1. /\ IsFiniteSet(D) /\ \A c \in D : truth[c] \in Classes
      /\ IsFiniteSet(Classes)
  BY RulesAssumption DEF IsScore
<1>2. DOMAIN predictions = D /\ \A c \in D : predictions[c] \in Classes
  BY DEF Scorable
<1>3. /\ IsFiniteSet(right) /\ IsFiniteSet(missed)
      /\ Cardinality(right) \in Nat /\ total \in Nat
      /\ Cardinality(missed) = wrong
  <2>1. right \in SUBSET D /\ missed \in SUBSET D /\ D \cap right = right
    BY <1>2
  <2>2. IsFiniteSet(right) /\ IsFiniteSet(missed)
    BY <1>1, <2>1, FS_Subset
  <2>3. Cardinality(D \ right) = Cardinality(D) - Cardinality(D \cap right)
    BY <1>1, FS_Difference
  <2>4. Cardinality(right) \in Nat /\ total \in Nat
    BY <1>1, <2>2, FS_CardinalityType
  <2> QED BY <2>1, <2>2, <2>3, <2>4
<1> HIDE DEF truth, predictions, matrix, right
<1>4. ASSUME NEW S \in SUBSET (Classes \X Classes)
      PROVE  SumFunctionOnSet(matrix, S)
               = Cardinality({c \in D : <<truth[c], predictions[c]>> \in S})
  <2>1. IsFiniteSet(Classes \X Classes)
    BY <1>1, FS_Product
  <2>2. IsFiniteSet(S)
    BY <2>1, FS_Subset
  <2> QED BY <1>1, <1>2, <2>2, SumOfMatrix DEF matrix
<1>5. ASSUME NEW k \in Classes
      PROVE  /\ count[k].tp = Cardinality({c \in D : truth[c] = k /\ predictions[c] = k})
             /\ count[k].fp = Cardinality({c \in missed : predictions[c] = k})
             /\ count[k].fn = Cardinality({c \in missed : truth[c] = k})
             /\ count[k].support = count[k].tp + count[k].fn
  <2>1. /\ count[k].tp = matrix[<<k, k>>]
        /\ count[k].fp = SumFunctionOnSet(matrix, (Classes \ {k}) \X {k})
        /\ count[k].fn = SumFunctionOnSet(matrix, {k} \X (Classes \ {k}))
        /\ count[k].support = count[k].tp + count[k].fn
    BY DEF PerClass
  <2>2. matrix[<<k, k>>] = Cardinality({c \in D : truth[c] = k /\ predictions[c] = k})
    <3>1. matrix[<<k, k>>] = Cardinality({c \in D : <<truth[c], predictions[c]>> = <<k, k>>})
      BY <1>2 DEF matrix, Matrix
    <3>2. {c \in D : <<truth[c], predictions[c]>> = <<k, k>>}
            = {c \in D : truth[c] = k /\ predictions[c] = k}
      OBVIOUS
    <3> QED BY <3>1, <3>2
  <2>3. {c \in D : <<truth[c], predictions[c]>> \in (Classes \ {k}) \X {k}}
          = {c \in missed : predictions[c] = k}
    BY <1>1, <1>2 DEF right
  <2>4. {c \in D : <<truth[c], predictions[c]>> \in {k} \X (Classes \ {k})}
          = {c \in missed : truth[c] = k}
    BY <1>1, <1>2 DEF right
  <2>5. /\ (Classes \ {k}) \X {k} \in SUBSET (Classes \X Classes)
        /\ {k} \X (Classes \ {k}) \in SUBSET (Classes \X Classes)
    OBVIOUS
  <2> QED BY <1>4, <2>1, <2>2, <2>3, <2>4, <2>5
<1>6. ASSUME NEW k \in Classes
      PROVE  count[k].support = Cardinality({c \in D : truth[c] = k})
  <2> DEFINE Hit == {c \in D : truth[c] = k /\ predictions[c] = k}
             Lost == {c \in missed : truth[c] = k}
  <2>1. {c \in D : truth[c] = k} = Hit \cup Lost /\ Hit \cap Lost = {}
    BY <1>2 DEF right
  <2>2. IsFiniteSet(Hit) /\ IsFiniteSet(Lost)
    BY <1>1, <1>3, FS_Subset
  <2>3. Cardinality(Hit \cup Lost) = Cardinality(Hit) + Cardinality(Lost)
    BY <2>1, <2>2, DisjointSizes
  <2> QED BY <1>5, <2>1, <2>3
<1> HIDE DEF count, missed
<1>7. SumFunctionOnSet([class \in Classes |-> count[class].support], Classes) = total
  <2> DEFINE f == [class \in Classes |-> count[class].support]
  <2>1. \A k \in Classes : f[k] = Cardinality(Fibre(D, truth, k))
    BY <1>6 DEF Fibre
  <2> HIDE DEF f
  <2>2. SumFunctionOnSet(f, Classes) = Cardinality(Fibres(D, truth, Classes))
    BY <1>1, <1>3, <2>1, SumOfFibres
  <2>3. Fibres(D, truth, Classes) = D
    BY <1>1 DEF Fibres
  <2> QED BY <2>2, <2>3 DEF f
<1>8. \A c \in missed : c \in D
  BY DEF missed
<1>9. SumFunctionOnSet([class \in Classes |-> count[class].fp], Classes) = wrong
  <2> DEFINE f == [class \in Classes |-> count[class].fp]
  <2>1. \A k \in Classes : f[k] = Cardinality(Fibre(missed, predictions, k))
    BY <1>5 DEF Fibre
  <2> HIDE DEF f
  <2>2. SumFunctionOnSet(f, Classes) = Cardinality(Fibres(missed, predictions, Classes))
    BY <1>1, <1>3, <2>1, SumOfFibres
  <2>3. Fibres(missed, predictions, Classes) = missed
    BY <1>2, <1>8 DEF Fibres
  <2> QED BY <1>3, <2>2, <2>3 DEF missed, f
<1>10. SumFunctionOnSet([class \in Classes |-> count[class].fn], Classes) = wrong
  <2> DEFINE f == [class \in Classes |-> count[class].fn]
  <2>1. \A k \in Classes : f[k] = Cardinality(Fibre(missed, truth, k))
    BY <1>5 DEF Fibre
  <2> HIDE DEF f
  <2>2. SumFunctionOnSet(f, Classes) = Cardinality(Fibres(missed, truth, Classes))
    BY <1>1, <1>3, <2>1, SumOfFibres
  <2>3. Fibres(missed, truth, Classes) = missed
    BY <1>1, <1>8 DEF Fibres
  <2> QED BY <1>3, <2>2, <2>3 DEF missed, f
<1>11. Correct(matrix, Classes) = total - wrong
  <2>1. {<<class, class>> : class \in Classes} \in SUBSET (Classes \X Classes)
    OBVIOUS
  <2>2. {c \in D : <<truth[c], predictions[c]>> \in {<<class, class>> : class \in Classes}}
          = right
    BY <1>1, <1>2 DEF right
  <2> QED BY <1>3, <1>4, <2>1, <2>2 DEF Correct
<1> QED BY <1>7, <1>9, <1>10, <1>11

-----------------------------------------------------------------------------
(***************************************************************************)
(* Split isolation.  A forest has its roots in a function R, the only one  *)
(* that agrees with following the parents.                                 *)
(***************************************************************************)
FollowsParents(forest, D, R) ==
    R = [i \in D |-> IF forest.parent[i] = i THEN i ELSE R[forest.parent[i]]]

IsForest(forest, D) ==
    /\ forest.parent \in [D -> D] /\ forest.rank \in [D -> Int]
    /\ forest = [parent |-> forest.parent, rank |-> forest.rank]

Rooted(forest, D, R) ==
    /\ IsForest(forest, D)
    /\ R \in [D -> D] /\ \A i \in D : forest.parent[R[i]] = R[i]
    /\ FollowsParents(forest, D, R)
    /\ \A S : FollowsParents(forest, D, S) => S = R

(* The recursion over the parents finds these roots.                       *)
LEMMA RootIsRoot ==
    ASSUME NEW forest, NEW D, NEW R, Rooted(forest, D, R)
    PROVE  Root(forest) = R
<1>1. DOMAIN forest.parent = D BY DEF Rooted, IsForest
<1>2. Root(forest) = CHOOSE S : FollowsParents(forest, D, S)
  BY <1>1 DEF Root, FollowsParents
<1> QED BY <1>2 DEF Rooted

(* Where every case is its own parent it is its own root.                  *)
LEMMA SingletonsRooted ==
    ASSUME NEW cases
    PROVE  Rooted(Singletons(cases), DOMAIN cases, [i \in DOMAIN cases |-> i])
BY DEF Rooted, IsForest, FollowsParents, Singletons

Relabelled(R, low, high) == [i \in DOMAIN R |-> IF R[i] = low THEN high ELSE R[i]]

(* Hanging one root below another moves its whole tree there: the old roots*)
(* with the two made one agree with the new parents, and any function that *)
(* does so is found to be them, for from it one that agrees with the old   *)
(* parents can be made.                                                    *)
LEMMA HangRooted ==
    ASSUME NEW D, NEW forest, NEW R, Rooted(forest, D, R),
           NEW low \in D, NEW high \in D, low # high, R[low] = low, R[high] = high,
           forest.parent[low] = low, forest.parent[high] = high,
           NEW rank \in [D -> Int]
    PROVE  Rooted([parent |-> [forest.parent EXCEPT ![low] = high], rank |-> rank], D,
                  Relabelled(R, low, high))
<1> DEFINE new == [parent |-> [forest.parent EXCEPT ![low] = high], rank |-> rank]
           N == Relabelled(R, low, high)
<1>1. /\ forest.parent \in [D -> D] /\ R \in [D -> D]
      /\ \A i \in D : forest.parent[R[i]] = R[i]
      /\ \A i \in D : R[i] = IF forest.parent[i] = i THEN i ELSE R[forest.parent[i]]
  BY DEF Rooted, IsForest, FollowsParents
<1>2. IsForest(new, D) BY <1>1 DEF IsForest
<1>3. \A i \in D : new.parent[i] = IF i = low THEN high ELSE forest.parent[i]
  BY <1>1
<1>4. N \in [D -> D] /\ \A i \in D : N[i] = IF R[i] = low THEN high ELSE R[i]
  BY <1>1 DEF Relabelled
<1> HIDE DEF new, N
<1>5. \A i \in D : new.parent[N[i]] = N[i] BY <1>1, <1>3, <1>4
<1>6. \A i \in D : N[i] = IF new.parent[i] = i THEN i ELSE N[new.parent[i]]
  BY <1>1, <1>3, <1>4
<1>7. FollowsParents(new, D, N) BY <1>4, <1>6 DEF FollowsParents
<1>8. ASSUME NEW S, FollowsParents(new, D, S) PROVE S = N
  <2>1. /\ S = [i \in D |-> S[i]]
        /\ \A i \in D : S[i] = IF new.parent[i] = i THEN i ELSE S[new.parent[i]]
    BY <1>8 DEF FollowsParents
  <2>2. ASSUME NEW i \in D PROVE R[i] # low => S[i] = R[i]
    <3> DEFINE T == [j \in D |-> IF R[j] = low THEN low ELSE S[j]]
    <3>1. \A j \in D : T[j] = IF forest.parent[j] = j THEN j ELSE T[forest.parent[j]]
      BY <1>1, <1>3, <2>1
    <3>2. FollowsParents(forest, D, T) BY <3>1 DEF FollowsParents
    <3> HIDE DEF T
    <3>3. T = R BY <3>2 DEF Rooted
    <3> QED BY <3>3, <2>2 DEF T
  <2>3. ASSUME NEW i \in D PROVE R[i] = low => S[i] = high
    <3> DEFINE T == [j \in D |-> IF R[j] = low THEN (IF S[j] = high THEN low ELSE high)
                                 ELSE R[j]]
    <3>0. S[low] = high /\ S[high] = high BY <1>3, <2>1
    <3>1. ASSUME NEW j \in D
          PROVE  T[j] = IF forest.parent[j] = j THEN j ELSE T[forest.parent[j]]
      <4>1. CASE forest.parent[j] = j BY <1>1, <3>0, <4>1
      <4>2. CASE forest.parent[j] # j
        <5>1. R[j] = R[forest.parent[j]] /\ forest.parent[j] \in D BY <1>1, <4>2
        <5>2. S[j] = S[forest.parent[j]] BY <1>3, <2>1, <4>2
        <5> QED BY <4>2, <5>1, <5>2
      <4> QED BY <4>1, <4>2
    <3>2. FollowsParents(forest, D, T) BY <3>1 DEF FollowsParents
    <3> HIDE DEF T
    <3>3. T = R BY <3>2 DEF Rooted
    <3> QED BY <3>3, <2>3 DEF T
  <2>4. \A i \in D : S[i] = N[i] BY <1>4, <2>2, <2>3
  <2> QED BY <1>4, <2>1, <2>4
<1>9. Rooted(new, D, N) BY <1>2, <1>4, <1>5, <1>7, <1>8 DEF Rooted
<1> QED BY <1>9 DEF new, N

\* New roots part none that the old ones joined; and what a label tells apart is
\* not joined.
Keeps(D, R, N) == \A i, j \in D : R[i] = R[j] => N[i] = N[j]
Labelled(D, R, label) == \A i \in D : label[R[i]] = label[i]
Joins(D, R, N, l, r, label) ==
    /\ N[l] = N[r] /\ Keeps(D, R, N)
    /\ Labelled(D, R, label) /\ label[l] = label[r] => Labelled(D, N, label)

LEMMA UnionJoins ==
    ASSUME NEW D, NEW forest, NEW R, Rooted(forest, D, R), NEW l \in D, NEW r \in D, NEW label
    PROVE  \E N : Rooted(Union(forest, l, r), D, N) /\ Joins(D, R, N, l, r, label)
<1> DEFINE a == R[l]
           b == R[r]
           high == IF forest.rank[a] < forest.rank[b] THEN b ELSE a
           low == IF forest.rank[a] < forest.rank[b] THEN a ELSE b
           rank == [forest.rank EXCEPT
                      ![high] = @ + (IF forest.rank[low] = @ THEN 1 ELSE 0)]
           new == [parent |-> [forest.parent EXCEPT ![low] = high], rank |-> rank]
<1>1. Union(forest, l, r) = IF a = b THEN forest ELSE new
  BY RootIsRoot DEF Union
<1>2. CASE a = b
  BY <1>1, <1>2 DEF Joins, Keeps
<1>3. CASE a # b
  <2>1. /\ a \in D /\ b \in D
        /\ forest.parent[a] = a /\ forest.parent[b] = b /\ R[a] = a /\ R[b] = b
    BY DEF Rooted, FollowsParents
  <2>2. low \in {a, b} /\ high \in {a, b} /\ low # high BY <1>3
  <2>3. rank \in [D -> Int] BY <2>1 DEF Rooted, IsForest
  <2> HIDE DEF a, b, high, low, rank
  <2>4. Rooted(new, D, Relabelled(R, low, high))
    BY <2>1, <2>2, <2>3, HangRooted
  <2>5. R \in [D -> D] BY DEF Rooted
  <2>6. \A i \in D : Relabelled(R, low, high)[i] = IF R[i] = low THEN high ELSE R[i]
    BY <2>5 DEF Relabelled
  <2>7. Joins(D, R, Relabelled(R, low, high), l, r, label)
    <3> DEFINE N == Relabelled(R, low, high)
    <3> HIDE DEF N
    <3>1. N[l] = N[r] BY <2>2, <2>6 DEF N, a, b
    <3>2. \A i, j \in D : R[i] = R[j] => N[i] = N[j] BY <2>6 DEF N
    <3>3. ASSUME \A i \in D : label[R[i]] = label[i], label[l] = label[r], NEW i \in D
          PROVE  label[N[i]] = label[i]
      <4>1. label[a] = label[b] BY <3>3 DEF a, b
      <4>2. label[low] = label[high] BY <4>1, <2>2
      <4> QED BY <3>3, <4>2, <2>6 DEF N
    <3> QED BY <3>1, <3>2, <3>3 DEF Joins, Keeps, Labelled, N
  <2> QED BY <1>1, <1>3, <2>4, <2>7
<1> QED BY <1>2, <1>3

-----------------------------------------------------------------------------
(* A fold over a list is what a function on the sets of its places says of *)
(* all of them; only the sets 1 .. n of the first places matter.           *)
LEMMA MaxIsMember ==
    ASSUME NEW m \in Nat, NEW s \in SUBSET (1 .. m), s # {}
    PROVE  Max(s) \in s
<1> DEFINE T == {m - x : x \in s}
<1>1. T \in SUBSET Nat /\ T # {}
  <2>1. ASSUME NEW x \in s PROVE m - x \in Nat
    <3>1. x \in 1 .. m OBVIOUS
    <3> QED BY <3>1
  <2> QED BY <2>1
<1>2. PICK n \in T : \A k \in T : ~ (k < n)
  <2> HIDE DEF T
  <2> QED BY <1>1, LeastNumber
<1>3. PICK x \in s : n = m - x OBVIOUS
<1>4. ASSUME NEW y \in s PROVE x >= y
  <2>1. m - y \in T /\ x \in 1 .. m /\ y \in 1 .. m OBVIOUS
  <2>2. ~ (m - y < m - x) BY <1>2, <1>3, <2>1
  <2> QED BY <2>1, <2>2
<1> QED BY <1>4 DEF Max

LEMMA FirstPlaces ==
    ASSUME NEW m \in Nat, NEW n \in 1 .. m
    PROVE  /\ 1 .. n \in SUBSET (1 .. m) /\ 1 .. n # {}
           /\ Max(1 .. n) = n /\ (1 .. n) \ {n} = 1 .. (n - 1)
<1>1. Max(1 .. n) = n
  <2>1. n \in 1 .. n /\ \A y \in 1 .. n : n >= y OBVIOUS
  <2>2. \A x \in 1 .. n : (\A y \in 1 .. n : x >= y) => x = n BY <2>1
  <2> QED BY <2>1, <2>2 DEF Max
<1> QED BY <1>1

LEMMA UpToAll ==
    ASSUME NEW m \in Nat, NEW Good, 0 \in Good,
           \A n \in 1 .. m : n - 1 \in Good => n \in Good
    PROVE  m \in Good
<1> DEFINE Bad == {n \in 0 .. m : n \notin Good}
<1> SUFFICES ASSUME m \notin Good PROVE FALSE OBVIOUS
<1>1. Bad \in SUBSET Nat /\ Bad # {} OBVIOUS
<1>2. PICK n \in Bad : \A k \in Bad : ~ (k < n)
  <2> HIDE DEF Bad
  <2> QED BY <1>1, LeastNumber
<1>3. n \in 1 .. m /\ n - 1 \in 0 .. m /\ n - 1 < n OBVIOUS
<1> QED BY <1>2, <1>3

\* The function that a fold of step over m places is defined by.
Iterates(iter, m, base, step) ==
    iter = [s \in SUBSET (1 .. m) |->
               IF s = {} THEN base ELSE step[<<Max(s), iter[s \ {Max(s)}]>>]]

LEMMA IteratesExist ==
    ASSUME NEW m \in Nat, NEW States, NEW base \in States,
           NEW step \in [(1 .. m) \X States -> States]
    PROVE  \E iter \in [SUBSET (1 .. m) -> States] : Iterates(iter, m, base, step)
<1> DEFINE S == 1 .. m
           Next1(g) == [s \in SUBSET S |->
                IF s = {} THEN base ELSE step[<<Max(s), g[s \ {Max(s)}]>>]]
           UpTo(g, n) == \A s \in SUBSET S : Cardinality(s) <= n => g[s] = Next1(g)[s]
           Good == {n \in Nat : \E g \in [SUBSET S -> States] : UpTo(g, n)}
<1>0. IsFiniteSet(S) /\ Cardinality(S) = m BY FS_Interval
<1>1. \A s \in SUBSET S : /\ IsFiniteSet(s)
                          /\ Cardinality(s) \in Nat /\ Cardinality(s) <= m
  <2> HIDE DEF S
  <2> QED BY <1>0, FS_Subset, FS_CardinalityType
<1>2. ASSUME NEW s \in SUBSET S, s # {}
      PROVE  /\ Max(s) \in s /\ Max(s) \in S /\ s \ {Max(s)} \in SUBSET S
             /\ Cardinality(s \ {Max(s)}) = Cardinality(s) - 1
  <2>1. Max(s) \in s BY <1>2, MaxIsMember
  <2> QED BY <2>1, <1>1, FS_RemoveElement
<1> HIDE DEF S
<1>3. 0 \in Good
  <2> DEFINE g == [s \in SUBSET S |-> base]
  <2>1. g \in [SUBSET S -> States] OBVIOUS
  <2>2. ASSUME NEW s \in SUBSET S, Cardinality(s) <= 0 PROVE g[s] = Next1(g)[s]
    <3>1. s = {} BY <1>1, <2>2, FS_EmptySet
    <3> QED BY <3>1
  <2> QED BY <2>1, <2>2
<1>4. ASSUME NEW g \in [SUBSET S -> States] PROVE Next1(g) \in [SUBSET S -> States]
  <2> SUFFICES ASSUME NEW s \in SUBSET S, s # {}
               PROVE  step[<<Max(s), g[s \ {Max(s)}]>>] \in States
    OBVIOUS
  <2>1. Max(s) \in S /\ g[s \ {Max(s)}] \in States BY <1>2
  <2> QED BY <2>1 DEF S
<1>5. ASSUME NEW n \in Nat, NEW g \in [SUBSET S -> States], UpTo(g, n)
      PROVE  UpTo(Next1(g), n + 1)
  <2> SUFFICES ASSUME NEW s \in SUBSET S, Cardinality(s) <= n + 1
               PROVE  Next1(g)[s] = Next1(Next1(g))[s]
    OBVIOUS
  <2>1. CASE s = {} BY <2>1
  <2>2. CASE s # {}
    <3> DEFINE rest == s \ {Max(s)}
    <3>1. rest \in SUBSET S /\ Cardinality(rest) <= n BY <2>2, <1>1, <1>2
    <3>2. g[rest] = Next1(g)[rest] BY <3>1, <1>5
    <3> QED BY <3>1, <3>2, <2>2
  <2> QED BY <2>1, <2>2
<1>6. m \in Good
  <2>1. ASSUME NEW n \in 1 .. m, n - 1 \in Good PROVE n \in Good
    <3>1. n - 1 \in Nat /\ n = (n - 1) + 1 /\ n \in Nat OBVIOUS
    <3>2. PICK g \in [SUBSET S -> States] : UpTo(g, n - 1) BY <2>1
    <3> HIDE DEF UpTo, Next1
    <3>3. UpTo(Next1(g), n) BY <1>5, <3>1, <3>2
    <3>4. Next1(g) \in [SUBSET S -> States] BY <1>4
    <3> QED BY <3>1, <3>3, <3>4
  <2> HIDE DEF Good
  <2> QED BY <1>3, <2>1, UpToAll
<1>7. PICK g \in [SUBSET S -> States] : UpTo(g, m) BY <1>6
<1>8. Next1(g) = [s \in SUBSET S |->
         IF s = {} THEN base ELSE step[<<Max(s), Next1(g)[s \ {Max(s)}]>>]]
  <2> SUFFICES ASSUME NEW s \in SUBSET S, s # {}
               PROVE  g[s \ {Max(s)}] = Next1(g)[s \ {Max(s)}]
    BY Zenon
  <2>1. s \ {Max(s)} \in SUBSET S BY <1>2
  <2> QED BY <2>1, <1>7, <1>1
<1> HIDE DEF Next1
<1> QED BY <1>4, <1>8 DEF Iterates, S

-----------------------------------------------------------------------------
(* Joining by one key.                                                     *)
Forests(D) ==
    {forest \in [parent : [D -> D], rank : [D -> Int]] : \E R : Rooted(forest, D, R)}

LEMMA RootedIsForest ==
    ASSUME NEW forest, NEW D, NEW R, Rooted(forest, D, R)
    PROVE  forest \in Forests(D)
<1>1. forest \in [parent : [D -> D], rank : [D -> Int]]
  BY DEF Rooted, IsForest
<1> QED BY <1>1 DEF Forests

SameGroup(cases, key, i, j) ==
    cases[i].groups[key] # {} /\ cases[i].groups[key] = cases[j].groups[key]

LEMMA FirstIsFirst ==
    ASSUME NEW cases, IsList(cases), NEW key, NEW i \in DOMAIN cases
    PROVE  /\ FirstOfGroup(cases, key, i) \in DOMAIN cases
           /\ cases[FirstOfGroup(cases, key, i)].groups[key] = cases[i].groups[key]
           /\ \A j \in DOMAIN cases :
                  cases[i].groups[key] = cases[j].groups[key]
                     => FirstOfGroup(cases, key, i) = FirstOfGroup(cases, key, j)
<1> DEFINE D == DOMAIN cases
           IsFirst(j, v) == cases[j].groups[key] = v
                            /\ \A k \in 1 .. j - 1 : cases[k].groups[key] # v
           T(v) == {j \in D : cases[j].groups[key] = v}
<1>1. PICK m \in Nat : D = 1 .. m BY DEF IsList
<1>2. ASSUME NEW h \in D
      PROVE  \E j \in D : IsFirst(j, cases[h].groups[key])
  <2> DEFINE v == cases[h].groups[key]
  <2>1. T(v) \in SUBSET Nat /\ h \in T(v) BY <1>1
  <2>2. PICK j \in T(v) : \A k \in T(v) : ~ (k < j)
    <3> HIDE DEF T, v
    <3>1. T(v) # {} BY <2>1
    <3> QED BY <2>1, <3>1, LeastNumber
  <2>3. \A k \in 1 .. j - 1 : k \in D /\ k < j BY <1>1
  <2> QED BY <2>2, <2>3
<1>3. \A h \in D : FirstOfGroup(cases, key, h)
                     = CHOOSE j \in D : IsFirst(j, cases[h].groups[key])
  BY DEF FirstOfGroup
<1>4. ASSUME NEW h \in D
      PROVE  /\ FirstOfGroup(cases, key, h) \in D
             /\ IsFirst(FirstOfGroup(cases, key, h), cases[h].groups[key])
  <2> HIDE DEF IsFirst
  <2> QED BY <1>2, <1>3
<1>5. ASSUME NEW v, NEW j \in D, NEW k \in D, IsFirst(j, v), IsFirst(k, v) PROVE j = k
  <2>1. j \in 1 .. m /\ k \in 1 .. m BY <1>1
  <2>2. ~ (j < k) /\ ~ (k < j) BY <2>1, <1>5
  <2> QED BY <2>1, <2>2
<1>6. ASSUME NEW j \in D, cases[i].groups[key] = cases[j].groups[key]
      PROVE  FirstOfGroup(cases, key, i) = FirstOfGroup(cases, key, j)
  <2> HIDE DEF IsFirst
  <2> QED BY <1>4, <1>5, <1>6
<1> QED BY <1>4, <1>6

JoinCase(cases, key, joined, i) ==
    IF cases[i].groups[key] = {} THEN joined
    ELSE Union(joined, FirstOfGroup(cases, key, i), i)

\* The function that joining the cases is defined by.
CaseIterates(iter, cases, forest, key) ==
    iter = [s \in SUBSET DOMAIN [i \in DOMAIN cases |-> i] |->
               IF s = {} THEN forest
               ELSE JoinCase(cases, key, iter[s \ {Max(s)}], [i \in DOMAIN cases |-> i][Max(s)])]

LEMMA JoinByKeyIterates ==
    ASSUME NEW cases, NEW forest, NEW key
    PROVE  JoinByKey(cases, forest, key)
             = (CHOOSE iter : CaseIterates(iter, cases, forest, key))
                   [DOMAIN [i \in DOMAIN cases |-> i]]
BY DEF JoinByKey, FoldLeftDomain, FoldLeft, MapThenFoldSet, CaseIterates, JoinCase

\* The functions h of the number of cases joined so far.
CaseByCase(h, cases, forest, key) ==
    /\ h[0] = forest
    /\ \A n \in DOMAIN cases : h[n] = JoinCase(cases, key, h[n - 1], n)

LEMMA JoinByKeySteps ==
    ASSUME NEW cases, IsList(cases), NEW key,
           NEW forest \in Forests(DOMAIN cases)
    PROVE  \E h : /\ CaseByCase(h, cases, forest, key)
                  /\ JoinByKey(cases, forest, key) = h[Len(cases)]
<1> DEFINE D == DOMAIN cases
           step == [x \in D \X Forests(D) |-> JoinCase(cases, key, x[2], x[1])]
<1>1. PICK m \in Nat : m = Len(cases) /\ D = 1 .. m BY DEF IsList
<1>2. ASSUME NEW i \in D, NEW F \in Forests(D) PROVE JoinCase(cases, key, F, i) \in Forests(D)
  <2>1. PICK R : Rooted(F, D, R) BY DEF Forests
  <2>2. FirstOfGroup(cases, key, i) \in D BY FirstIsFirst
  <2>3. \E N : Rooted(Union(F, FirstOfGroup(cases, key, i), i), D, N)
    BY <2>1, <2>2, UnionJoins
  <2>4. Union(F, FirstOfGroup(cases, key, i), i) \in Forests(D)
    BY <2>3, RootedIsForest
  <2> QED BY <2>4 DEF JoinCase
<1>3. step \in [(1 .. m) \X Forests(D) -> Forests(D)] BY <1>1, <1>2
<1>4. \A i \in D, F \in Forests(D) : step[<<i, F>>] = JoinCase(cases, key, F, i)
  OBVIOUS
<1> HIDE DEF step
<1>5. PICK iter \in [SUBSET (1 .. m) -> Forests(D)] : Iterates(iter, m, forest, step)
  BY <1>3, IteratesExist
<1>6. \A s \in SUBSET D : s # {} => Max(s) \in s /\ [i \in D |-> i][Max(s)] = Max(s)
  BY <1>1, MaxIsMember
<1>7. CaseIterates(iter, cases, forest, key)
  <2>1. ASSUME NEW s \in SUBSET D, s # {}
        PROVE  iter[s] = JoinCase(cases, key, iter[s \ {Max(s)}], [i \in D |-> i][Max(s)])
    <3>1. Max(s) \in D /\ iter[s \ {Max(s)}] \in Forests(D) BY <1>1, <1>5, <1>6, <2>1
    <3>2. iter[s] = step[<<Max(s), iter[s \ {Max(s)}]>>]
      BY <1>1, <1>5, <2>1 DEF Iterates
    <3> QED BY <1>4, <1>6, <2>1, <3>1, <3>2
  <2>2. iter[{}] = forest BY <1>5 DEF Iterates
  <2>3. iter = [s \in SUBSET D |-> iter[s]] BY <1>1, <1>5
  <2>4. iter = [s \in SUBSET D |-> IF s = {} THEN forest
                   ELSE JoinCase(cases, key, iter[s \ {Max(s)}], [i \in D |-> i][Max(s)])]
    BY <2>1, <2>2, <2>3
  <2> QED BY <2>4 DEF CaseIterates
<1>8. PICK C : C = CHOOSE c : CaseIterates(c, cases, forest, key) OBVIOUS
<1>9. CaseIterates(C, cases, forest, key) BY <1>7, <1>8
<1> DEFINE h == [n \in 0 .. m |-> C[1 .. n]]
<1>10. h[0] = forest
  <2>1. 1 .. 0 = {} OBVIOUS
  <2> QED BY <1>9, <2>1 DEF CaseIterates
<1>11. ASSUME NEW n \in D PROVE h[n] = JoinCase(cases, key, h[n - 1], n)
  <2>1. n \in 1 .. m /\ n \in 0 .. m /\ n - 1 \in 0 .. m BY <1>1
  <2>2. /\ 1 .. n \in SUBSET D /\ 1 .. n # {}
        /\ Max(1 .. n) = n /\ (1 .. n) \ {n} = 1 .. (n - 1)
    BY <1>1, <2>1, FirstPlaces
  <2>3. C[1 .. n] = JoinCase(cases, key, C[1 .. (n - 1)], n)
    BY <1>9, <2>2 DEF CaseIterates
  <2> QED BY <2>1, <2>3
<1>12. JoinByKey(cases, forest, key) = h[m]
  <2>1. h[m] = C[D] BY <1>1
  <2> QED BY <1>8, <2>1, JoinByKeyIterates
<1> QED BY <1>1, <1>10, <1>11, <1>12 DEF CaseByCase

\* What joining by a key does to the roots: the cases of one group have one
\* root, and no label is crossed that the groups do not cross.
Unites(cases, key, N) ==
    \A i, j \in DOMAIN cases : SameGroup(cases, key, i, j) => N[i] = N[j]

LEMMA KeyUnites ==
    ASSUME NEW cases, IsList(cases), NEW key, NEW label,
           NEW forest, NEW R, Rooted(forest, DOMAIN cases, R)
    PROVE  \E N : /\ Rooted(JoinByKey(cases, forest, key), DOMAIN cases, N)
                  /\ Keeps(DOMAIN cases, R, N) /\ Unites(cases, key, N)
                  /\ Unites(cases, key, label) /\ Labelled(DOMAIN cases, R, label)
                        => Labelled(DOMAIN cases, N, label)
<1> DEFINE D == DOMAIN cases
           First(i) == FirstOfGroup(cases, key, i)
           United(n, N) == \A i \in 1 .. n : cases[i].groups[key] # {} => N[First(i)] = N[i]
           Kept(F, n, N) == /\ Rooted(F, D, N) /\ Keeps(D, R, N) /\ United(n, N)
                            /\ Unites(cases, key, label) /\ Labelled(D, R, label)
                                  => Labelled(D, N, label)
<1>1. PICK m \in Nat : m = Len(cases) /\ D = 1 .. m BY DEF IsList
<1>2. forest \in Forests(D) BY RootedIsForest
<1>3. PICK h : /\ CaseByCase(h, cases, forest, key)
               /\ JoinByKey(cases, forest, key) = h[m]
  BY <1>1, <1>2, JoinByKeySteps
<1> DEFINE Good == {n \in 0 .. m : \E N : Kept(h[n], n, N)}
<1>4. 0 \in Good
  <2>1. Kept(h[0], 0, R) BY <1>3 DEF CaseByCase, Keeps
  <2> QED BY <2>1
<1>5. ASSUME NEW n \in 1 .. m, n - 1 \in Good PROVE n \in Good
  <2>1. PICK N : Kept(h[n - 1], n - 1, N) BY <1>5
  <2>2. n \in D /\ h[n] = JoinCase(cases, key, h[n - 1], n)
    BY <1>1, <1>3 DEF CaseByCase
  <2>3. CASE cases[n].groups[key] = {}
    <3>1. h[n] = h[n - 1] BY <2>2, <2>3 DEF JoinCase
    <3>2. United(n, N)
      <4> SUFFICES ASSUME NEW i \in 1 .. n, cases[i].groups[key] # {}
                   PROVE  N[First(i)] = N[i]
        OBVIOUS
      <4>1. i \in 1 .. (n - 1) BY <2>3
      <4> QED BY <2>1, <4>1
    <3>3. Kept(h[n], n, N) BY <2>1, <3>1, <3>2
    <3> QED BY <3>3
  <2>4. CASE cases[n].groups[key] # {}
    <3>1. h[n] = Union(h[n - 1], First(n), n) BY <2>2, <2>4 DEF JoinCase
    <3>2. /\ First(n) \in D /\ cases[First(n)].groups[key] = cases[n].groups[key]
      BY <2>2, FirstIsFirst
    <3>3. PICK M : Rooted(h[n], D, M) /\ Joins(D, N, M, First(n), n, label)
      BY <2>1, <2>2, <3>1, <3>2, UnionJoins
    <3>4. Keeps(D, R, M) BY <2>1, <3>3 DEF Keeps, Joins
    <3>5. United(n, M)
      <4> SUFFICES ASSUME NEW i \in 1 .. n, cases[i].groups[key] # {}
                   PROVE  M[First(i)] = M[i]
        OBVIOUS
      <4>1. CASE i = n BY <3>3, <4>1 DEF Joins
      <4>2. CASE i # n
        <5>1. i \in 1 .. (n - 1) /\ i \in D BY <1>1, <4>2
        <5>2. N[First(i)] = N[i] /\ First(i) \in D BY <2>1, <5>1, FirstIsFirst
        <5> QED BY <3>3, <5>1, <5>2 DEF Joins, Keeps
      <4> QED BY <4>1, <4>2
    <3>6. ASSUME Unites(cases, key, label), Labelled(D, R, label)
          PROVE  Labelled(D, M, label)
      <4>1. label[First(n)] = label[n]
        BY <2>2, <2>4, <3>2, <3>6 DEF Unites, SameGroup
      <4> QED BY <2>1, <3>3, <3>6, <4>1 DEF Joins
    <3>7. Kept(h[n], n, M) BY <3>3, <3>4, <3>5, <3>6
    <3> QED BY <3>7
  <2> QED BY <2>3, <2>4
<1>6. PICK N : Kept(h[m], m, N)
  <2> HIDE DEF Kept
  <2>1. m \in Good
    <3> HIDE DEF Good
    <3> QED BY <1>4, <1>5, UpToAll
  <2> QED BY <2>1
<1>7. Unites(cases, key, N)
  <2> SUFFICES ASSUME NEW i \in D, NEW j \in D, SameGroup(cases, key, i, j)
               PROVE  N[i] = N[j]
    BY DEF Unites
  <2>1. First(i) = First(j) BY FirstIsFirst DEF SameGroup
  <2>2. cases[i].groups[key] # {} /\ cases[j].groups[key] # {} BY DEF SameGroup
  <2> QED BY <1>1, <1>6, <2>1, <2>2
<1> QED BY <1>3, <1>6, <1>7

-----------------------------------------------------------------------------
(* Joining by all the keys, in their order.                                *)
KeyIterates(iter, cases, keys) ==
    iter = [s \in SUBSET DOMAIN keys |->
               IF s = {} THEN Singletons(cases)
               ELSE JoinByKey(cases, iter[s \ {Max(s)}], keys[Max(s)])]

LEMMA ComponentsIterate ==
    ASSUME NEW cases, NEW keys
    PROVE  Components(cases, keys)
             = Root((CHOOSE iter : KeyIterates(iter, cases, keys))[DOMAIN keys])
BY DEF Components, FoldLeft, MapThenFoldSet, KeyIterates

KeyByKey(h, cases, keys) ==
    /\ h[0] = Singletons(cases)
    /\ \A n \in DOMAIN keys : h[n] = JoinByKey(cases, h[n - 1], keys[n])

LEMMA ComponentsSteps ==
    ASSUME NEW cases, IsList(cases), NEW keys, IsList(keys)
    PROVE  \E h : KeyByKey(h, cases, keys) /\ Components(cases, keys) = Root(h[Len(keys)])
<1> DEFINE D == DOMAIN cases
           K == DOMAIN keys
           step == [x \in K \X Forests(D) |-> JoinByKey(cases, x[2], keys[x[1]])]
<1>1. PICK m \in Nat : m = Len(keys) /\ K = 1 .. m BY DEF IsList
<1>2. ASSUME NEW i \in K, NEW F \in Forests(D)
      PROVE  JoinByKey(cases, F, keys[i]) \in Forests(D)
  <2>1. PICK R : Rooted(F, D, R) BY DEF Forests
  <2>2. \E N : Rooted(JoinByKey(cases, F, keys[i]), D, N) BY <2>1, KeyUnites
  <2> QED BY <2>2, RootedIsForest
<1>3. Singletons(cases) \in Forests(D) BY SingletonsRooted, RootedIsForest
<1>4. step \in [(1 .. m) \X Forests(D) -> Forests(D)] BY <1>1, <1>2
<1>5. \A i \in K, F \in Forests(D) : step[<<i, F>>] = JoinByKey(cases, F, keys[i])
  OBVIOUS
<1> HIDE DEF step
<1>6. PICK iter \in [SUBSET (1 .. m) -> Forests(D)] :
          Iterates(iter, m, Singletons(cases), step)
  BY <1>3, <1>4, IteratesExist
<1>7. KeyIterates(iter, cases, keys)
  <2>1. ASSUME NEW s \in SUBSET K, s # {}
        PROVE  iter[s] = JoinByKey(cases, iter[s \ {Max(s)}], keys[Max(s)])
    <3>1. Max(s) \in K BY <1>1, <2>1, MaxIsMember
    <3>2. iter[s \ {Max(s)}] \in Forests(D) BY <1>1, <1>6
    <3>3. iter[s] = step[<<Max(s), iter[s \ {Max(s)}]>>]
      BY <1>1, <1>6, <2>1 DEF Iterates
    <3> QED BY <1>5, <3>1, <3>2, <3>3
  <2>2. iter[{}] = Singletons(cases) BY <1>6 DEF Iterates
  <2>3. iter = [s \in SUBSET K |-> iter[s]] BY <1>1, <1>6
  <2>4. iter = [s \in SUBSET K |-> IF s = {} THEN Singletons(cases)
                   ELSE JoinByKey(cases, iter[s \ {Max(s)}], keys[Max(s)])]
    BY <2>1, <2>2, <2>3
  <2> QED BY <2>4 DEF KeyIterates
<1>8. PICK C : C = CHOOSE c : KeyIterates(c, cases, keys) OBVIOUS
<1>9. KeyIterates(C, cases, keys) BY <1>7, <1>8
<1> DEFINE h == [n \in 0 .. m |-> C[1 .. n]]
<1>10. h[0] = Singletons(cases)
  <2>1. 1 .. 0 = {} OBVIOUS
  <2> QED BY <1>9, <2>1 DEF KeyIterates
<1>11. ASSUME NEW n \in K PROVE h[n] = JoinByKey(cases, h[n - 1], keys[n])
  <2>1. n \in 1 .. m /\ n \in 0 .. m /\ n - 1 \in 0 .. m BY <1>1
  <2>2. /\ 1 .. n \in SUBSET K /\ 1 .. n # {}
        /\ Max(1 .. n) = n /\ (1 .. n) \ {n} = 1 .. (n - 1)
    BY <1>1, <2>1, FirstPlaces
  <2>3. C[1 .. n] = JoinByKey(cases, C[1 .. (n - 1)], keys[n])
    BY <1>9, <2>2 DEF KeyIterates
  <2> QED BY <2>1, <2>3
<1>12. Components(cases, keys) = Root(h[m])
  <2>1. h[m] = C[K] BY <1>1
  <2> QED BY <1>8, <2>1, ComponentsIterate
<1> QED BY <1>1, <1>10, <1>11, <1>12 DEF KeyByKey

(* The components join the cases of every group of every key, and cross no *)
(* label that none of these groups crosses.                                *)
LEMMA ComponentsUnite ==
    ASSUME NEW cases, IsList(cases), NEW keys, IsList(keys), NEW label
    PROVE  LET R == Components(cases, keys) IN
           /\ R \in [DOMAIN cases -> DOMAIN cases]
           /\ \A k \in DOMAIN keys : Unites(cases, keys[k], R)
           /\ (\A k \in DOMAIN keys : Unites(cases, keys[k], label))
                 => Labelled(DOMAIN cases, R, label)
<1> DEFINE D == DOMAIN cases
           K == DOMAIN keys
           Sound == \A k \in K : Unites(cases, keys[k], label)
           Kept(F, n, N) == /\ Rooted(F, D, N)
                            /\ \A k \in 1 .. n : Unites(cases, keys[k], N)
                            /\ Sound => Labelled(D, N, label)
<1>1. PICK m \in Nat : m = Len(keys) /\ K = 1 .. m BY DEF IsList
<1>2. PICK h : KeyByKey(h, cases, keys) /\ Components(cases, keys) = Root(h[m])
  BY <1>1, ComponentsSteps
<1> DEFINE Good == {n \in 0 .. m : \E N : Kept(h[n], n, N)}
<1>3. 0 \in Good
  <2>1. Rooted(h[0], D, [i \in D |-> i]) BY <1>2, SingletonsRooted DEF KeyByKey
  <2>2. Kept(h[0], 0, [i \in D |-> i]) BY <2>1 DEF Labelled
  <2> QED BY <2>2
<1>4. ASSUME NEW n \in 1 .. m, n - 1 \in Good PROVE n \in Good
  <2>1. PICK R : Kept(h[n - 1], n - 1, R) BY <1>4
  <2>2. n \in K /\ h[n] = JoinByKey(cases, h[n - 1], keys[n])
    BY <1>1, <1>2 DEF KeyByKey
  <2>3. PICK N : /\ Rooted(h[n], D, N)
                 /\ Keeps(D, R, N) /\ Unites(cases, keys[n], N)
                 /\ Unites(cases, keys[n], label) /\ Labelled(D, R, label)
                       => Labelled(D, N, label)
    BY <2>1, <2>2, KeyUnites
  <2>4. ASSUME NEW k \in 1 .. n PROVE Unites(cases, keys[k], N)
    <3>1. CASE k = n BY <2>3, <3>1
    <3>2. CASE k # n
      <4>1. k \in 1 .. (n - 1) BY <3>2
      <4>2. Unites(cases, keys[k], R) BY <2>1, <4>1
      <4> QED BY <2>3, <4>2 DEF Unites, Keeps
    <3> QED BY <3>1, <3>2
  <2>5. Sound => Labelled(D, N, label) BY <2>1, <2>2, <2>3
  <2>6. Kept(h[n], n, N) BY <2>3, <2>4, <2>5
  <2> QED BY <2>6
<1>5. PICK N : Kept(h[m], m, N)
  <2> HIDE DEF Kept
  <2>1. m \in Good
    <3> HIDE DEF Good
    <3> QED BY <1>3, <1>4, UpToAll
  <2> QED BY <2>1
<1>6. Components(cases, keys) = N BY <1>2, <1>5, RootIsRoot
<1> QED BY <1>1, <1>5, <1>6 DEF Rooted

-----------------------------------------------------------------------------
(* Media.  The first case that has a medium stands for all that have it.   *)
LEMMA FirstOwnerIsFirst ==
    ASSUME NEW cases, IsList(cases), NEW asset, NEW i \in DOMAIN cases, asset \in cases[i].assets
    PROVE  /\ FirstOwner(cases, asset) \in DOMAIN cases
           /\ asset \in cases[FirstOwner(cases, asset)].assets
<1> DEFINE D == DOMAIN cases
           T == {j \in D : asset \in cases[j].assets}
<1>1. PICK m \in Nat : D = 1 .. m BY DEF IsList
<1>2. T \in SUBSET Nat /\ T # {} BY <1>1
<1>3. PICK j \in T : \A k \in T : ~ (k < j)
  <2> HIDE DEF T
  <2> QED BY <1>2, LeastNumber
<1>4. \A k \in 1 .. j - 1 : k \in D /\ k < j BY <1>1
<1>5. j \in D /\ asset \in cases[j].assets /\ \A k \in 1 .. j - 1 : asset \notin cases[k].assets
  BY <1>3, <1>4
<1> QED BY <1>5 DEF FirstOwner

(* The check of a dataset asks for what it is meant to: the components give*)
(* the groups, by the splits as labels, and the first owners the media.    *)
LEMMA IsolationIsApart ==
    ASSUME NEW cases, IsList(cases), NEW keys, IsList(keys)
    PROVE  SplitsIsolated(cases, keys) <=> NothingShared(cases, keys)
<1> DEFINE D == DOMAIN cases
           K == DOMAIN keys
           label == [i \in D |-> cases[i].split]
           R == Components(cases, keys)
           GroupsApart == \A k \in K : Unites(cases, keys[k], label)
           AssetsApart == \A i, j \in D : \A asset \in cases[i].assets \cap cases[j].assets :
                              cases[i].split = cases[j].split
<1>1. /\ R \in [D -> D] /\ \A k \in K : Unites(cases, keys[k], R)
      /\ GroupsApart => Labelled(D, R, label)
  BY ComponentsUnite
<1>2. (\A i, j \in D : R[i] = R[j] => cases[i].split = cases[j].split) <=> GroupsApart
  <2> DEFINE Whole == \A i, j \in D : R[i] = R[j] => cases[i].split = cases[j].split
  <2>1. ASSUME Whole, NEW k \in K PROVE Unites(cases, keys[k], label)
    BY <1>1, <2>1 DEF Unites, SameGroup
  <2>2. ASSUME GroupsApart, NEW i \in D, NEW j \in D, R[i] = R[j]
        PROVE  cases[i].split = cases[j].split
    <3>1. label[R[i]] = label[i] /\ label[R[j]] = label[j]
      BY <1>1, <2>2 DEF Labelled
    <3> QED BY <2>2, <3>1
  <2> QED BY <2>1, <2>2
<1>3. (\A i \in D : \A asset \in cases[i].assets :
           cases[FirstOwner(cases, asset)].split = cases[i].split) <=> AssetsApart
  <2> DEFINE Owned == \A i \in D : \A asset \in cases[i].assets :
                          cases[FirstOwner(cases, asset)].split = cases[i].split
  <2>1. Owned => AssetsApart OBVIOUS
  <2>2. ASSUME AssetsApart, NEW i \in D, NEW asset \in cases[i].assets
        PROVE  cases[FirstOwner(cases, asset)].split = cases[i].split
    BY <2>2, FirstOwnerIsFirst
  <2> QED BY <2>1, <2>2
<1>4. (\A k \in K : keys[k] = "project_group_id" => \A i \in D : cases[i].groups[keys[k]] # {})
          <=> HaveProjects(cases, keys)
  BY DEF HaveProjects
<1>5. SplitsIsolated(cases, keys) <=>
          HaveProjects(cases, keys) /\ GroupsApart /\ AssetsApart
  <2> HIDE DEF GroupsApart, AssetsApart
  <2> QED BY <1>2, <1>3, <1>4 DEF SplitsIsolated
<1>6. (\A i, j \in D : cases[i].split # cases[j].split => ~Share(cases[i], cases[j], keys))
          <=> GroupsApart /\ AssetsApart
  <2>1. \A i, j \in D :
            Share(cases[i], cases[j], keys) <=>
                \/ \E k \in K : SameGroup(cases, keys[k], i, j)
                \/ \E asset : asset \in cases[i].assets \cap cases[j].assets
    BY DEF Share, SameGroup
  <2>2. GroupsApart <=> \A k \in K : \A i, j \in D :
                            SameGroup(cases, keys[k], i, j) => cases[i].split = cases[j].split
    BY DEF Unites
  <2> QED BY <2>1, <2>2
<1> QED BY <1>5, <1>6 DEF NothingShared

-----------------------------------------------------------------------------
(* An input never changes, so what holds of the inputs holds always.       *)
LEMMA InputsHold ==
    Spec => [](/\ input[1] = "header" => input[2] \in Headers
               /\ input[1] = "file" => input[2] \in Files
               /\ input[1] = "json" => input[2] \in Packages
               /\ input[1] = "derivative" => input[2] \in Derivatives
               /\ input[1] = "dataset" => input[2] \in Datasets
               /\ input[1] = "score" => input[2] \in Scores)
<1> DEFINE Known == /\ input[1] = "header" => input[2] \in Headers
                    /\ input[1] = "file" => input[2] \in Files
                    /\ input[1] = "json" => input[2] \in Packages
                    /\ input[1] = "derivative" => input[2] \in Derivatives
                    /\ input[1] = "dataset" => input[2] \in Datasets
                    /\ input[1] = "score" => input[2] \in Scores
<1>1. Init => Known
  BY DEF Init
<1>2. Known /\ [Next]_input => Known'
  BY DEF Next
<1> QED BY <1>1, <1>2, PTL DEF Spec

(* A geometry header of whatever length and flags is let through exactly   *)
(* when it has one of the five envelopes and is long enough for it.        *)
THEOREM HeadersFitTheirEnvelopes == Spec => []HeaderFitsItsEnvelope
<1>1. (input[1] = "header" => input[2] \in Headers) => HeaderFitsItsEnvelope
  BY HeadersFit, RulesAssumption DEF HeaderFitsItsEnvelope
<1> QED BY <1>1, InputsHold, PTL

(* In files of any size the keys of the reference systems mean nothing,    *)
(* and all the objects of one file lie in one allowed system.              *)
THEOREM SystemsAreResolved == Spec => []ReferenceSystemsAreResolved
<1>1. (input[1] = "file" => input[2] \in Files) => ReferenceSystemsAreResolved
  BY KeysAreOpaque, OneSystem, RulesAssumption DEF ReferenceSystemsAreResolved
<1> QED BY <1>1, InputsHold, PTL

(* In a design of any size, what is missing after an import is the rows of  *)
(* the layers that the package says were rejected, or the import says that  *)
(* it is partial.                                                           *)
THEOREM MissingRowsAreKnown == Spec => []MissingRowsAreAccountedFor
<1>1. /\ input[1] = "file" => input[2] \in Files
      /\ input[1] = "json" => input[2] \in Packages
      /\ input[1] = "derivative" => input[2] \in Derivatives
      => MissingRowsAreAccountedFor
  BY OthersAreMissing, CompletedPackages, CompletedDerivatives, RulesAssumption
     DEF MissingRowsAreAccountedFor
<1> QED BY <1>1, InputsHold, PTL

(* A dataset of any number of cases and keys is accepted exactly when no   *)
(* two cases of different splits share a group or a medium.                *)
THEOREM DatasetsAreIsolated == Spec => []IsolationMeansNothingShared
<1>1. (input[1] = "dataset" => input[2] \in Datasets) => IsolationMeansNothingShared
  BY IsolationIsApart, RulesAssumption DEF IsDataset, IsolationMeansNothingShared
<1> QED BY <1>1, InputsHold, PTL

(* In a score of any number of cases and classes each case counts once.    *)
THEOREM CasesCountOnce == Spec => []EveryCaseCounts
<1>1. (input[1] = "score" => input[2] \in Scores) => EveryCaseCounts
  BY CasesCount DEF EveryCaseCounts
<1> QED BY <1>1, InputsHold, PTL
=============================================================================
