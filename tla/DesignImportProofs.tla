------------------------- MODULE DesignImportProofs -------------------------
(***************************************************************************)
(* What holds of the two-request import for any number of requests and any *)
(* files: DesignImport's three invariants, from one inductive invariant.   *)
(***************************************************************************)
EXTENDS DesignImport, FiniteSetTheorems, TLAPS

-----------------------------------------------------------------------------
(***************************************************************************)
(* The inductive invariant.                                                *)
(***************************************************************************)
UploadPcs == UploadDone \cup
    {"start", "purging", "waiting", "writing", "describing", "inspecting"}
ConfirmPcs == ConfirmDone \cup
    {"start", "purging", "opening", "claiming", "claimed", "importing", "inserting",
     "cleaning", "releasing", "unlinking", "committing"}
Results == {"none", "token", "in_progress", "already_completed", "mismatch", "rejected",
            "unwritten", "conflict", "written", "imported", "lost", "crashed"}
Inodes == {{}} \cup {{r} : r \in Uploads \cup Confirms}

UploadType ==
    [pc : UploadPcs, code : Codes \cup {"none"}, digest : Digests \cup {"none"},
     handle : Inodes, old : BOOLEAN]
ConfirmType ==
    [pc : ConfirmPcs, of : Uploads \cup {"none"}, code : Codes \cup {"none"},
     handle : Inodes, snapshot : SUBSET Digests, row : SUBSET RowType, result : Results]

JsonType == {NoJson} \cup {<<pc, d>> : pc \in {"stored", "imported", "crashed"}, d \in DOMAIN JsonFiles}

Typed ==
    /\ upload \in [Uploads -> UploadType]
    /\ files \in [Uploads -> SUBSET {"partial", "meta"}]
    /\ bytes \in [Uploads -> {{}} \cup {{d} : d \in Digests}]
    /\ confirm \in [Confirms -> ConfirmType]
    /\ named \in [Locks -> Inodes]
    /\ oldLocks \in SUBSET Locks
    /\ \A l \in oldLocks : named[l] # {}
    /\ slipped \in SUBSET {"lock", "scan", "read"}
    /\ litter \in SUBSET Uploads
    /\ packages \in SUBSET RowType
    /\ json \in [JsonUploads -> JsonType]

\* How far an upload is says what lies beside its staging id.
Staged(u) ==
    /\ (upload[u].handle # {}) = (upload[u].pc \in {"waiting", "writing", "describing"})
    /\ upload[u].old => upload[u].pc \in {"inspecting", "previewed", "refused", "crashed"}
    /\ upload[u].pc # "start" => upload[u].code \in Codes /\ upload[u].digest \in Digests
    /\ upload[u].pc \in {"start", "purging", "waiting"} => files[u] = {}
    /\ upload[u].pc \in {"start", "purging", "waiting", "writing"} => bytes[u] = {}
    /\ upload[u].pc = "refused" => bytes[u] = {} \/ u \in litter
    /\ upload[u].pc = "describing" =>
        /\ files[u] = {} /\ bytes[u] # {}
        /\ \A d \in bytes[u] : Contents[d].bytes = Contents[upload[u].digest].bytes
    /\ upload[u].pc \in {"inspecting", "previewed", "refused"} =>
        u \in litter \/ files[u] = IF bytes[u] = {} THEN {} ELSE {"meta"}
    /\ upload[u].pc \in {"inspecting", "previewed"} => files[u] \subseteq {"meta"}
    /\ upload[u].pc = "previewed" => Sound[upload[u].digest]

\* The package that a confirm's upload was previewed as.
Shown(c) == RowOf(upload[confirm[c].of].code, upload[confirm[c].of].digest)
Packaged(digest) == \E p \in packages : p.source = "gpkg" /\ p.digest = digest

\* A confirm carries nothing but what was shown, and a result only once it has one.
Carried(c) ==
    /\ (confirm[c].handle # {}) =
          (confirm[c].pc \in {"claiming", "claimed", "importing", "inserting", "cleaning",
                              "releasing"})
    /\ confirm[c].pc # "start" =>
        /\ confirm[c].of \in Uploads /\ upload[confirm[c].of].pc = "previewed"
        /\ confirm[c].code \in Codes
        /\ confirm[c].snapshot \subseteq {upload[confirm[c].of].digest}
        /\ confirm[c].row \subseteq {Shown(c)}
    /\ confirm[c].pc \in {"start", "purging", "opening", "claiming", "claimed", "importing",
                          "inserting"} => confirm[c].result = "none"
    /\ confirm[c].pc = "start" => confirm[c].row = {} /\ confirm[c].snapshot = {}
    /\ confirm[c].pc \in {"opening", "claiming", "claimed", "importing"} =>
        confirm[c].code = upload[confirm[c].of].code
    /\ confirm[c].snapshot # {} =>
          \/ confirm[c].pc \in {"importing", "inserting", "cleaning", "releasing", "crashed"}
          \/ confirm[c].result = "unwritten" \/ confirm[c].of \in litter
    /\ confirm[c].pc \in {"cleaning", "committing"} => confirm[c].result = "written"
    /\ confirm[c].result = "written" =>
        confirm[c].pc \in {"cleaning", "releasing", "unlinking", "committing"}
    /\ (confirm[c].pc = "inserting" \/ confirm[c].result = "written") =>
        confirm[c].row # {} \/ Packaged(upload[confirm[c].of].digest)
    /\ confirm[c].result = "imported" => Packaged(upload[confirm[c].of].digest)

\* A claim lock has its name while one who opened it has not left, or could
\* not remove it.
ClaimNamed(u) ==
    named[u] # {} =>
        /\ upload[u].pc = "previewed"
        /\ \/ u \in litter
           \/ \E c \in Confirms : /\ confirm[c].of = u
                                  /\ confirm[c].pc \in
                                       {"claiming", "claimed", "importing", "inserting",
                                        "cleaning", "releasing", "unlinking", "crashed"}

\* What each pending upload adds to the bytes counted, and the room that the
\* whole directory leaves.
Counted == [u \in Uploads |->
    IF u \in Pending THEN Contents[CHOOSE d \in bytes[u] : TRUE].bytes ELSE 0]
RoomFor(u) ==
    /\ Cardinality(Pending) < MaxPending
    /\ PendingBytes + Contents[upload[u].digest].bytes <= MaxPendingBytes

\* Until the quota slips its lock is one inode, and the one request in the
\* critical section has the room it found there.
QuotaKept ==
    slipped # {} \/
        /\ \A u \in Uploads : upload[u].handle # {} => upload[u].handle = named["quota"]
        /\ \A u, v \in Counting : u = v
        /\ Cardinality(Pending) <= MaxPending /\ PendingBytes <= MaxPendingBytes
        /\ \A u \in Counting : RoomFor(u)

\* No two rows collide: of the packages, and of the transactions about to
\* become packages.
RowsApart ==
    /\ \A p, q \in packages : p # q => ~Collide(p, q)
    /\ \A w \in Writers : ~Collides(confirm[w].row)
    /\ \A v, w \in Writers : v # w =>
        \A p \in confirm[v].row, q \in confirm[w].row : ~Collide(p, q)

\* A stored JSON file has its package, or a request that has not removed it.
JsonFilesKept ==
    \A d \in jsonFiles : \/ \E p \in packages : p.source = "json" /\ p.digest = d
                         \/ \E j \in JsonUploads : json[j] \in {<<"stored", d>>, <<"crashed", d>>}

ImportInv ==
    /\ Typed
    /\ \A u \in Uploads : Staged(u)
    /\ \A c \in Confirms : Carried(c)
    /\ \A u \in Uploads : ClaimNamed(u)
    /\ QuotaKept
    /\ RowsApart
    /\ ImportedAsPreviewed
    /\ NoUploadIsLost
    /\ JsonFilesKept

-----------------------------------------------------------------------------
(***************************************************************************)
(* Sums over a finite set, for the quota.  A sum is what a function on the *)
(* subsets says of the whole; what holds of every sum is proved by a       *)
(* smallest subset of which it would not hold.                             *)
(***************************************************************************)
Picked(s) == CHOOSE x \in s : TRUE
\* The function that a sum over S is defined by.
Totals(total, f, S) ==
    total = [s \in SUBSET S |-> IF s = {} THEN 0 ELSE f[Picked(s)] + total[s \ {Picked(s)}]]

\* A set of numbers has a least one.
LEMMA LeastNumber ==
    ASSUME NEW T \in SUBSET Nat, T # {}
    PROVE  \E n \in T : \A m \in T : ~ (m < n)
<1> DEFINE Upto == {1 .. n : n \in T}
<1>1. Upto \subseteq FiniteSubsetsOf(Nat) /\ Upto # {}
    <2> SUFFICES ASSUME NEW n \in T PROVE 1 .. n \in FiniteSubsetsOf(Nat)
        OBVIOUS
    <2> QED BY FS_Interval DEF FiniteSubsetsOf
<1>2. PICK U \in Upto : \A V \in Upto : ~ (<<V, U>> \in StrictSubsetOrdering(Nat))
    <2> HIDE DEF Upto
    <2> QED BY <1>1, WFMin, FS_StrictSubsetOrderingWellFounded
<1>3. PICK n \in T : U = 1 .. n OBVIOUS
<1>4. ASSUME NEW m \in T, m < n PROVE FALSE
    <2>1. n \in 1 .. n /\ n \notin 1 .. m /\ 1 .. m \subseteq 1 .. n BY <1>4
    <2>2. <<1 .. m, 1 .. n>> \in StrictSubsetOrdering(Nat)
        BY <2>1 DEF StrictSubsetOrdering
    <2> QED BY <1>2, <1>3, <2>2
<1> QED BY <1>4

\* What the sum of the community modules chooses.
LEMMA SumIsTotal ==
    ASSUME NEW f, NEW S
    PROVE  SumFunctionOnSet(f, S) = (CHOOSE total : Totals(total, f, S))[S]
BY DEF SumFunctionOnSet, FoldFunctionOnSet, MapThenFoldSet, Totals, Picked

\* The choice is of something: sums of at most n members exist, by the least n
\* without.
LEMMA TotalsExist ==
    ASSUME NEW f, NEW S, IsFiniteSet(S)
    PROVE  \E total : Totals(total, f, S)
<1> DEFINE Next1(g) == [s \in SUBSET S |->
                IF s = {} THEN 0 ELSE f[Picked(s)] + g[s \ {Picked(s)}]]
           UpTo(g, n) == \A s \in SUBSET S : Cardinality(s) <= n => g[s] = Next1(g)[s]
           Bad == {n \in Nat : ~ \E g : UpTo(g, n)}
<1>0. \A s \in SUBSET S : IsFiniteSet(s) /\ Cardinality(s) \in Nat /\ Cardinality(s) <= Cardinality(S)
    BY FS_Subset, FS_CardinalityType
<1>1. 0 \notin Bad
    <2>1. UpTo([s \in SUBSET S |-> 0], 0)
        <3> SUFFICES ASSUME NEW s \in SUBSET S, Cardinality(s) <= 0
                     PROVE  [t \in SUBSET S |-> 0][s] = Next1([t \in SUBSET S |-> 0])[s]
            OBVIOUS
        <3>1. s = {} BY <1>0, FS_EmptySet
        <3> QED BY <3>1
    <2> QED BY <2>1
<1>2. ASSUME NEW n \in Nat, NEW g, UpTo(g, n) PROVE UpTo(Next1(g), n + 1)
    <2> SUFFICES ASSUME NEW s \in SUBSET S, Cardinality(s) <= n + 1
                 PROVE  Next1(g)[s] = Next1(Next1(g))[s]
        OBVIOUS
    <2>1. CASE s = {} BY <2>1
    <2>2. CASE s # {}
        <3> DEFINE rest == s \ {Picked(s)}
        <3>1. Picked(s) \in s BY <2>2 DEF Picked
        <3>2. rest \in SUBSET S /\ Cardinality(rest) <= n
            BY <3>1, <1>0, FS_RemoveElement
        <3>3. g[rest] = Next1(g)[rest] BY <3>2, <1>2
        <3> QED BY <3>2, <3>3, <2>2
    <2> QED BY <2>1, <2>2
<1>3. Bad = {}
    <2> SUFFICES ASSUME Bad # {} PROVE FALSE OBVIOUS
    <2>1. PICK n \in Bad : \A m \in Bad : ~ (m < n) 
        <3> HIDE DEF UpTo
        <3> QED BY LeastNumber
    <2>2. n \in Nat /\ n # 0 BY <1>1, <2>1
    <2>3. n - 1 \in Nat /\ n - 1 < n /\ n = (n - 1) + 1 BY <2>2
    <2>4. n - 1 \notin Bad BY <2>1, <2>3
    <2>5. PICK g : UpTo(g, n - 1) BY <2>3, <2>4
    <2> HIDE DEF UpTo, Next1
    <2>6. UpTo(Next1(g), n) BY <1>2, <2>3, <2>5
    <2> QED BY <2>1, <2>6
<1>4. PICK g : UpTo(g, Cardinality(S)) BY <1>3, <1>0
<1>5. Next1(g) = [s \in SUBSET S |->
         IF s = {} THEN 0 ELSE f[Picked(s)] + Next1(g)[s \ {Picked(s)}]]
    <2> SUFFICES ASSUME NEW s \in SUBSET S, s # {}
                 PROVE  g[s \ {Picked(s)}] = Next1(g)[s \ {Picked(s)}]
        BY Zenon
    <2> QED BY <1>4, <1>0
<1> QED BY <1>5 DEF Totals

\* A sum to which one summand adds k at most.
LEMMA SumCompare ==
    ASSUME NEW S, IsFiniteSet(S), NEW f \in [S -> Nat], NEW g \in [S -> Nat],
           NEW x, NEW k \in Nat,
           \A s \in S : g[s] <= f[s] + (IF s = x THEN k ELSE 0)
    PROVE  /\ SumFunctionOnSet(f, S) \in Nat /\ SumFunctionOnSet(g, S) \in Nat
           /\ SumFunctionOnSet(g, S) <= SumFunctionOnSet(f, S) + k
<1>1. PICK F : F = (CHOOSE total : Totals(total, f, S)) OBVIOUS
<1>2. PICK G : G = (CHOOSE total : Totals(total, g, S)) OBVIOUS
<1>3. Totals(F, f, S) /\ Totals(G, g, S) BY <1>1, <1>2, TotalsExist
<1> DEFINE Good(T) == /\ F[T] \in Nat /\ G[T] \in Nat
                      /\ G[T] <= F[T] + (IF x \in T THEN k ELSE 0)
           Bad == {T \in SUBSET S : ~ Good(T)}
<1>4. ASSUME NEW T \in SUBSET S, T \in Bad,
             \A U \in Bad : ~ (<<U, T>> \in StrictSubsetOrdering(S))
      PROVE  FALSE
    <2>1. CASE T = {}
        <3>1. F[T] = 0 /\ G[T] = 0 BY <1>3, <2>1 DEF Totals
        <3> QED BY <1>4, <2>1, <3>1
    <2>2. CASE T # {}
        <3>1. PICK t, U : t = Picked(T) /\ U = T \ {t} OBVIOUS
        <3>2. t \in T /\ t \in S /\ U \in SUBSET S /\ U # T /\ U \subseteq T
            BY <2>2, <3>1 DEF Picked
        <3>3. F[T] = f[t] + F[U] /\ G[T] = g[t] + G[U]
            BY <1>3, <2>2, <3>1 DEF Totals
        <3>4. <<U, T>> \in StrictSubsetOrdering(S)
            BY <3>2 DEF StrictSubsetOrdering
        <3>5. Good(U) BY <1>4, <3>2, <3>4
        <3>6. f[t] \in Nat /\ g[t] \in Nat /\ g[t] <= f[t] + (IF t = x THEN k ELSE 0)
            BY <3>2
        <3>7. x \in U <=> x \in T /\ x # t BY <3>1
        <3>8. Good(T)
            <4> HIDE <1>3
            <4>1. PICK a \in Nat, b \in Nat, c \in Nat, e \in Nat :
                    a = f[t] /\ b = g[t] /\ c = F[U] /\ e = G[U] BY <3>5, <3>6
            <4> QED BY <3>2, <3>3, <3>5, <3>6, <3>7, <4>1
        <3> QED BY <3>8, <1>4
    <2> QED BY <2>1, <2>2
<1>5. Bad = {}
    <2> SUFFICES ASSUME Bad # {} PROVE FALSE OBVIOUS
    <2>1. Bad \subseteq SUBSET S OBVIOUS
    <2>2. FiniteSubsetsOf(S) = SUBSET S BY FS_FiniteSubsetsOfFinite
    <2> HIDE DEF Bad
    <2>3. \E T \in Bad : \A U \in Bad : ~ (<<U, T>> \in StrictSubsetOrdering(S))
        BY <2>1, <2>2, WFMin, FS_StrictSubsetOrderingWellFounded
    <2> QED BY <2>1, <2>3, <1>4
<1>6. Good(S) BY <1>5
<1>7. SumFunctionOnSet(f, S) = F[S] /\ SumFunctionOnSet(g, S) = G[S]
    BY <1>1, <1>2, SumIsTotal
<1> QED BY <1>6, <1>7

\* Nothing adds up to nothing.
LEMMA SumOfNothing ==
    ASSUME NEW S, IsFiniteSet(S)
    PROVE  SumFunctionOnSet([s \in S |-> 0], S) = 0
<1> DEFINE f == [s \in S |-> 0]
           g == [s \in SUBSET S |-> 0]
<1>1. PICK F : F = (CHOOSE total : Totals(total, f, S)) OBVIOUS
<1>2. Totals(F, f, S) BY <1>1, TotalsExist
<1> DEFINE Bad == {T \in SUBSET S : F[T] # 0}
<1>3. ASSUME NEW T \in Bad, \A U \in Bad : ~ (<<U, T>> \in StrictSubsetOrdering(S))
      PROVE  FALSE
    <2>1. T \in SUBSET S /\ F[T] # 0 OBVIOUS
    <2>2. T # {} BY <1>2, <2>1 DEF Totals
    <2>3. PICK t, U : t = Picked(T) /\ U = T \ {t} OBVIOUS
    <2>4. t \in T /\ t \in S /\ U \in SUBSET S /\ U # T /\ U \subseteq T
        BY <2>1, <2>2, <2>3 DEF Picked
    <2>5. F[T] = f[t] + F[U] BY <1>2, <2>1, <2>2, <2>3 DEF Totals
    <2>6. <<U, T>> \in StrictSubsetOrdering(S) BY <2>1, <2>4 DEF StrictSubsetOrdering
    <2>7. F[U] = 0 BY <1>3, <2>4, <2>6
    <2> QED BY <2>1, <2>4, <2>5, <2>7
<1>4. Bad = {}
    <2> SUFFICES ASSUME Bad # {} PROVE FALSE OBVIOUS
    <2>1. Bad \subseteq SUBSET S OBVIOUS
    <2>2. FiniteSubsetsOf(S) = SUBSET S BY FS_FiniteSubsetsOfFinite
    <2> HIDE DEF Bad
    <2>3. \E T \in Bad : \A U \in Bad : ~ (<<U, T>> \in StrictSubsetOrdering(S))
        BY <2>1, <2>2, WFMin, FS_StrictSubsetOrderingWellFounded
    <2> QED BY <2>3, <1>3
<1>5. F[S] = 0 BY <1>4
<1> QED BY <1>1, <1>5, SumIsTotal

\* What a request that removes or describes one upload does to the bytes counted.
LEMMA CountedTyped ==
    ASSUME Typed
    PROVE  Counted \in [Uploads -> Nat]
<1> SUFFICES ASSUME NEW u \in Uploads, bytes[u] # {}
             PROVE  Contents[CHOOSE d \in bytes[u] : TRUE].bytes \in Nat
    BY DEF Counted, Pending
<1>1. \E d \in Digests : bytes[u] = {d} BY DEF Typed
<1>2. PICK x \in Digests : bytes[u] = {x} BY <1>1
<1>3. (CHOOSE d \in bytes[u] : TRUE) = x BY <1>2
<1> QED BY <1>3, ImportAssumption DEF Digests

LEMMA CountedTypedNext ==
    ASSUME Typed'
    PROVE  Counted' \in [Uploads -> Nat]
<1> SUFFICES ASSUME NEW u \in Uploads, bytes'[u] # {}
             PROVE  Contents[CHOOSE d \in bytes'[u] : TRUE].bytes \in Nat
    BY DEF Counted, Pending
<1>1. \E d \in Digests : bytes'[u] = {d} BY DEF Typed
<1>2. PICK x \in Digests : bytes'[u] = {x} BY <1>1
<1>3. (CHOOSE d \in bytes'[u] : TRUE) = x BY <1>2
<1> QED BY <1>3, ImportAssumption DEF Digests

LEMMA PendingSum ==
    /\ PendingBytes = SumFunction(Counted) /\ PendingBytes' = SumFunction(Counted')
    /\ \A u \in Uploads : Room(u, Pending, Pending) = RoomFor(u)
BY DEF PendingBytes, BytesOf, Counted, Room, RoomFor

LEMMA PendingCompare ==
    ASSUME Typed, Typed', NEW x, NEW k \in Nat,
           \A u \in Uploads : Counted'[u] <= Counted[u] + (IF u = x THEN k ELSE 0)
    PROVE  /\ PendingBytes \in Nat /\ PendingBytes' \in Nat
           /\ PendingBytes' <= PendingBytes + k
<1>1. IsFiniteSet(Uploads) BY ImportAssumption
<1>2. Counted \in [Uploads -> Nat] /\ Counted' \in [Uploads -> Nat]
    BY CountedTyped, CountedTypedNext
<1>3. PICK f, g : f = Counted /\ g = Counted' OBVIOUS
<1>4. /\ SumFunctionOnSet(f, Uploads) \in Nat /\ SumFunctionOnSet(g, Uploads) \in Nat
      /\ SumFunctionOnSet(g, Uploads) <= SumFunctionOnSet(f, Uploads) + k
    BY <1>1, <1>2, <1>3, SumCompare
<1>5. DOMAIN f = Uploads /\ DOMAIN g = Uploads BY <1>2, <1>3
<1>6. PendingBytes = SumFunctionOnSet(f, Uploads) /\ PendingBytes' = SumFunctionOnSet(g, Uploads)
    BY <1>3, <1>5, PendingSum DEF SumFunction
<1> QED BY <1>4, <1>6

LEMMA PendingFinite ==
    ASSUME Typed, NEW us, us \subseteq Uploads
    PROVE  IsFiniteSet(us) /\ Cardinality(us) \in Nat
BY ImportAssumption, FS_Subset, FS_CardinalityType

-----------------------------------------------------------------------------
(***************************************************************************)
(* What one step leaves as it was.  Each lemma keeps one conjunct of the   *)
(* invariant, and says what a step must not have done to it.               *)
(***************************************************************************)
\* Previews that are done stay done, under the same code and digest.
PreviewsKept == \A u \in Uploads : upload[u].pc = "previewed" =>
    /\ upload'[u].pc = "previewed"
    /\ upload'[u].code = upload[u].code /\ upload'[u].digest = upload[u].digest

LEMMA QuotaFrame ==
    ASSUME Typed, Typed', \A u \in Uploads : Staged(u), QuotaKept,
           slipped \subseteq slipped', named'["quota"] = named["quota"],
           \A u \in Uploads : upload'[u].handle \in {upload[u].handle, {}},
           \A u \in Counting' : u \in Counting /\ upload'[u].digest = upload[u].digest,
           \A u \in Pending' : u \in Pending /\ Counted'[u] <= Counted[u]
    PROVE  QuotaKept'
<1> SUFFICES ASSUME slipped' = {} PROVE QuotaKept' BY DEF QuotaKept
<1>1. /\ \A u \in Uploads : upload[u].handle # {} => upload[u].handle = named["quota"]
      /\ \A u, v \in Counting : u = v
      /\ Cardinality(Pending) <= MaxPending /\ PendingBytes <= MaxPendingBytes
      /\ \A u \in Counting : RoomFor(u)
    BY DEF QuotaKept
<1>2. \A u \in Uploads : Counted'[u] <= Counted[u] + (IF u = "quota" THEN 0 ELSE 0)
    <2>1. Counted \in [Uploads -> Nat] /\ Counted' \in [Uploads -> Nat]
        BY CountedTyped, CountedTypedNext
    <2>2. \A u \in Uploads : u \notin Pending' => Counted'[u] = 0 BY DEF Counted
    <2> QED BY <2>1, <2>2
<1>3. PendingBytes \in Nat /\ PendingBytes' \in Nat /\ PendingBytes' <= PendingBytes
    BY <1>2, PendingCompare
<1>4. Pending \subseteq Uploads /\ Pending' \subseteq Pending BY DEF Pending
<1>5. /\ Cardinality(Pending) \in Nat /\ Cardinality(Pending') \in Nat
      /\ Cardinality(Pending') <= Cardinality(Pending)
    BY <1>4, PendingFinite, FS_Subset, FS_CardinalityType
<1>6. \A u \in Uploads : upload'[u].handle # {} => upload'[u].handle = named'["quota"]
    BY <1>1
<1>7. \A u, v \in Counting' : u = v BY <1>1
<1>8. Cardinality(Pending') <= MaxPending /\ PendingBytes' <= MaxPendingBytes
    BY <1>1, <1>3, <1>5, ImportAssumption
<1>9. \A u \in Counting' : RoomFor(u)'
    <2> SUFFICES ASSUME NEW u \in Counting' PROVE RoomFor(u)' OBVIOUS
    <2>1. RoomFor(u) /\ upload'[u].digest = upload[u].digest BY <1>1
    <2>2. u \in Counting /\ u \in Uploads BY DEF Counting
    <2>3. upload[u].digest \in Digests BY <2>2 DEF Staged, Counting
    <2>4. PICK size \in Nat : size = Contents[upload[u].digest].bytes
        BY <2>3, ImportAssumption DEF Digests
    <2>5. PendingBytes' + size <= MaxPendingBytes
        BY <1>3, <2>1, <2>4, ImportAssumption DEF RoomFor
    <2>6. Cardinality(Pending') < MaxPending
        BY <1>5, <2>1, ImportAssumption DEF RoomFor
    <2> QED BY <2>1, <2>4, <2>5, <2>6 DEF RoomFor
<1> QED BY <1>6, <1>7, <1>8, <1>9 DEF QuotaKept

LEMMA PendingShrinks ==
    ASSUME Typed, Typed',
           \A u \in Uploads : bytes'[u] # {} /\ "meta" \in files'[u] =>
               bytes'[u] = bytes[u] /\ "meta" \in files[u]
    PROVE  \A u \in Pending' : u \in Pending /\ Counted'[u] <= Counted[u]
<1>1. Counted \in [Uploads -> Nat] /\ Counted' \in [Uploads -> Nat]
    BY CountedTyped, CountedTypedNext
<1> SUFFICES ASSUME NEW u \in Pending'
             PROVE  u \in Pending /\ Counted'[u] = Counted[u]
    BY <1>1 DEF Pending
<1>2. u \in Uploads /\ u \in Pending /\ bytes'[u] = bytes[u] BY DEF Pending
<1>3. /\ Counted[u] = Contents[CHOOSE d \in bytes[u] : TRUE].bytes
      /\ Counted'[u] = Contents[CHOOSE d \in bytes'[u] : TRUE].bytes
    BY <1>2 DEF Counted
<1> QED BY <1>2, <1>3

LEMMA CarriedFrame ==
    ASSUME NEW c, Carried(c), confirm'[c] = confirm[c], PreviewsKept, packages \subseteq packages',
           litter \subseteq litter'
    PROVE  Carried(c)'
BY DEF Carried, PreviewsKept, Shown, RowOf, Packaged

LEMMA ClaimFrame ==
    ASSUME NEW u \in Uploads, ClaimNamed(u), PreviewsKept, named'[u] # {} => named[u] # {},
           litter \subseteq litter',
           \A c \in Confirms :
               /\ confirm[c].of = u
               /\ confirm[c].pc \in {"claiming", "claimed", "importing", "inserting",
                                     "cleaning", "releasing", "unlinking", "crashed"}
               => /\ confirm'[c].of = u
                  /\ confirm'[c].pc \in {"claiming", "claimed", "importing", "inserting",
                                         "cleaning", "releasing", "unlinking", "crashed"}
    PROVE  ClaimNamed(u)'
BY DEF ClaimNamed, PreviewsKept

LEMMA RowsFrame ==
    ASSUME RowsApart, packages' = packages,
           \A w \in Writers' : w \in Writers /\ confirm'[w].row = confirm[w].row
    PROVE  RowsApart'
BY DEF RowsApart, Collides

LEMMA ShownFrame ==
    ASSUME ImportedAsPreviewed, PreviewsKept, packages' = packages
    PROVE  ImportedAsPreviewed'
BY DEF ImportedAsPreviewed, PreviewsKept

\* Who answers for an upload that is gone goes on answering for it.
Answers(c, u) ==
    /\ confirm[c].of = u
    /\ confirm[c].result \in {"written", "rejected", "lost", "crashed"}

LEMMA LostFrame ==
    ASSUME NoUploadIsLost, packages \subseteq packages',
           \A u \in Uploads :
               upload'[u].pc = "previewed" /\ bytes'[u] = {} /\ ~upload'[u].old =>
                   /\ upload[u].pc = "previewed" /\ bytes[u] = {} /\ ~upload[u].old
                   /\ upload'[u].digest = upload[u].digest,
           \A u \in Uploads, c \in Confirms :
               Answers(c, u) => Answers(c, u)' \/ Packaged(upload[u].digest)'
    PROVE  NoUploadIsLost'
<1> SUFFICES ASSUME NEW u \in Uploads, upload'[u].pc = "previewed", bytes'[u] = {},
                    ~upload'[u].old
             PROVE  Packaged(upload[u].digest)' \/ \E c \in Confirms : Answers(c, u)'
    BY DEF NoUploadIsLost, Packaged, Answers
<1>1. /\ Packaged(upload[u].digest) \/ \E c \in Confirms : Answers(c, u)
      /\ upload'[u].digest = upload[u].digest
    BY DEF NoUploadIsLost, Packaged, Answers
<1>2. Packaged(upload[u].digest) => Packaged(upload[u].digest)' BY <1>1 DEF Packaged
<1> QED BY <1>1, <1>2

-----------------------------------------------------------------------------
(***************************************************************************)
(* One lemma per action: the invariant survives it.                        *)
(***************************************************************************)
\* A step of a preview or of its environment: confirms and records stand still.
LEMMA UploadFrame ==
    ASSUME ImportInv, Typed', UNCHANGED <<confirm, packages, json, jsonFiles>>, PreviewsKept,
           litter \subseteq litter',
           \A v \in Uploads : Staged(v)', QuotaKept',
           \A v \in Uploads : named'[v] # {} => named[v] # {},
           \A v \in Uploads :
               upload'[v].pc = "previewed" /\ bytes'[v] = {} /\ ~upload'[v].old =>
                   /\ upload[v].pc = "previewed" /\ bytes[v] = {} /\ ~upload[v].old
                   /\ upload'[v].digest = upload[v].digest
    PROVE  ImportInv'
<1>1. \A c \in Confirms : Carried(c)' BY CarriedFrame DEF ImportInv
<1>2. \A v \in Uploads : ClaimNamed(v)' BY ClaimFrame DEF ImportInv
<1>3. RowsApart' BY RowsFrame DEF ImportInv, Writers
<1>4. ImportedAsPreviewed' BY ShownFrame DEF ImportInv
<1>5. NoUploadIsLost' BY LostFrame DEF ImportInv, Answers
<1>6. JsonFilesKept' BY DEF ImportInv, JsonFilesKept
<1> QED BY <1>1, <1>2, <1>3, <1>4, <1>5, <1>6 DEF ImportInv

\* What clearing away does to an upload: each file goes, or the upload is litter.
Cleared(u) ==
    /\ \/ UNCHANGED bytes
       \/ bytes' = [bytes EXCEPT ![u] = {}]
    /\ \/ UNCHANGED files
       \/ files' = [files EXCEPT ![u] = @ \ {"meta"}]
    /\ \/ UNCHANGED <<named, oldLocks>>
       \/ named' = [named EXCEPT ![u] = {}] /\ oldLocks' = oldLocks \ {u}
    /\ \/ litter' = litter \cup {u}
       \/ /\ litter' = litter
          /\ bytes' = [bytes EXCEPT ![u] = {}]
          /\ files' = [files EXCEPT ![u] = @ \ {"meta"}]
          /\ named' = [named EXCEPT ![u] = {}]

LEMMA CleanUpClears ==
    ASSUME NEW u, CleanUpStaged(u)
    PROVE  Cleared(u)
BY DEF CleanUpStaged, Cleared, Unlink


Begins(u, code, d) ==
    /\ upload[u].pc = "start"
    /\ upload' = [upload EXCEPT ![u] = [@ EXCEPT !.pc = "purging", !.code = code, !.digest = d]]
    /\ UNCHANGED <<confirm, Staging, Records, faults>>

LEMMA BeginsKeeps ==
    ASSUME ImportInv, NEW u \in Uploads, NEW code \in Codes, NEW d \in Digests, Begins(u, code, d)
    PROVE  ImportInv'
<1>a. litter \subseteq litter' /\ slipped \subseteq slipped'
    BY DEF ImportInv, Begins, Staging, Locking, Records
<1>1. Typed'
    <2>1. upload'[u] \in UploadType
        <3>1. upload[u] \in UploadType BY DEF ImportInv, Typed
        <3>2. upload'[u] = [upload[u] EXCEPT !.pc = "purging", !.code = code, !.digest = d]
            BY DEF ImportInv, Typed, Begins
        <3>3. "purging" \in UploadPcs BY DEF UploadPcs
        <3> QED BY <3>1, <3>2, <3>3 DEF UploadType
    <2>2. upload' \in [Uploads -> UploadType]
        BY <2>1 DEF ImportInv, Begins, Staging, Locking, Records, Typed
    <2>3. /\ files' \in [Uploads -> SUBSET {"partial", "meta"}]
          /\ bytes' \in [Uploads -> {{}} \cup {{x} : x \in Digests}]
        BY DEF ImportInv, Begins, Staging, Locking, Records, Typed
    <2>4. /\ named' \in [Locks -> Inodes] /\ oldLocks' \in SUBSET Locks
          /\ \A l \in oldLocks' : named'[l] # {}
        BY DEF ImportInv, Begins, Staging, Locking, Records, Typed, Locks, Inodes
    <2>5. confirm' = confirm /\ packages' = packages /\ json' = json
          /\ slipped' \in SUBSET {"lock", "scan", "read"} /\ litter' \in SUBSET Uploads
        BY DEF ImportInv, Begins, Staging, Locking, Records, Typed
    <2> QED BY <2>2, <2>3, <2>4, <2>5 DEF ImportInv, Typed
<1>2. \A v \in Uploads : v # u =>
        upload'[v] = upload[v] /\ files'[v] = files[v] /\ bytes'[v] = bytes[v]
    BY DEF ImportInv, Begins, Staging, Locking, Records, Typed
<1>3. \A v \in Uploads : Staged(v)'
    <2>1. Staged(u)'
        BY DEF ImportInv, Staged, Begins, Staging, Locking, Records, Typed, UploadType, UploadPcs, UploadDone, Inodes, Locks, Digests
    <2> QED BY <1>a, <1>2, <2>1 DEF ImportInv, Staged
<1>4. PreviewsKept
    BY DEF ImportInv, PreviewsKept, Begins, Staging, Locking, Records, Typed, UploadType
<1>5. QuotaKept'
    <2>1. \A v \in Pending' : v \in Pending /\ Counted'[v] <= Counted[v]
        <3>1. \A v \in Uploads : bytes'[v] # {} /\ "meta" \in files'[v] =>
                bytes'[v] = bytes[v] /\ "meta" \in files[v]
            BY DEF ImportInv, Staged, Begins, Staging, Locking, Records, Typed
        <3> QED BY <1>1, <3>1, PendingShrinks DEF ImportInv
    <2>2. \A v \in Uploads : upload'[v].handle \in {upload[v].handle, {}}
        BY DEF ImportInv, Staged, Begins, Staging, Locking, Records, Typed, UploadType
    <2>3. \A v \in Counting' : v \in Counting /\ upload'[v].digest = upload[v].digest
        BY DEF ImportInv, Counting, Begins, Staging, Locking, Records, Typed, UploadType
    <2>4. named'["quota"] = named["quota"] /\ slipped \subseteq slipped'
        BY <1>a, ImportAssumption DEF ImportInv, Begins, Staging, Locking, Records, Typed, Locks
    <2> QED BY <1>1, <2>1, <2>2, <2>3, <2>4, QuotaFrame DEF ImportInv
<1>6. \A v \in Uploads : named'[v] # {} => named[v] # {}
    BY ImportAssumption DEF ImportInv, Begins, Staging, Locking, Records, Typed, Locks
<1>7. \A v \in Uploads :
        upload'[v].pc = "previewed" /\ bytes'[v] = {} /\ ~upload'[v].old =>
            /\ upload[v].pc = "previewed" /\ bytes[v] = {} /\ ~upload[v].old
            /\ upload'[v].digest = upload[v].digest
    BY DEF ImportInv, Staged, Begins, Staging, Locking, Records, Typed, UploadType
<1>8. UNCHANGED <<confirm, packages, json, jsonFiles>>
    BY DEF Begins, Staging, Locking, Records
<1> QED BY <1>a, <1>1, <1>3, <1>4, <1>5, <1>6, <1>7, <1>8, UploadFrame

LEMMA BeginPreviewKeeps ==
    ASSUME ImportInv, NEW u \in Uploads, BeginPreview(u)
    PROVE  ImportInv'
<1>1. PICK code \in Codes, d \in Digests : Begins(u, code, d)
    BY DEF BeginPreview, Begins
<1> QED BY <1>1, BeginsKeeps


LEMMA RenamePartialKeeps ==
    ASSUME ImportInv, NEW u \in Uploads, RenamePartial(u)
    PROVE  ImportInv'
<1>a. litter \subseteq litter' /\ slipped \subseteq slipped'
    BY DEF ImportInv, RenamePartial, MoveUpload, Locking, Records
<1>1. Typed'
    <2>1. upload'[u] \in UploadType
        <3>1. upload[u] \in UploadType BY DEF ImportInv, Typed
        <3>2. upload'[u] = [upload[u] EXCEPT !.pc = "describing"]
            BY DEF ImportInv, Typed, RenamePartial, MoveUpload
        <3>3. "describing" \in UploadPcs BY DEF UploadPcs
        <3> QED BY <3>1, <3>2, <3>3 DEF UploadType
    <2>2. upload' \in [Uploads -> UploadType]
        BY <2>1 DEF ImportInv, RenamePartial, MoveUpload, Locking, Records, Typed
    <2>3. /\ files' \in [Uploads -> SUBSET {"partial", "meta"}]
          /\ bytes' \in [Uploads -> {{}} \cup {{x} : x \in Digests}]
        BY DEF ImportInv, Staged, RenamePartial, MoveUpload, Locking, Records, Typed
    <2>4. /\ named' \in [Locks -> Inodes] /\ oldLocks' \in SUBSET Locks
          /\ \A l \in oldLocks' : named'[l] # {}
        BY DEF ImportInv, RenamePartial, MoveUpload, Locking, Records, Typed, Locks, Inodes
    <2>5. confirm' = confirm /\ packages' = packages /\ json' = json
          /\ slipped' \in SUBSET {"lock", "scan", "read"} /\ litter' \in SUBSET Uploads
        BY DEF ImportInv, RenamePartial, MoveUpload, Locking, Records, Typed
    <2> QED BY <2>2, <2>3, <2>4, <2>5 DEF ImportInv, Typed
<1>2. \A v \in Uploads : v # u =>
        upload'[v] = upload[v] /\ files'[v] = files[v] /\ bytes'[v] = bytes[v]
    BY DEF ImportInv, RenamePartial, MoveUpload, Locking, Records, Typed
<1>3. \A v \in Uploads : Staged(v)'
    <2>1. Staged(u)'
        BY DEF ImportInv, Staged, RenamePartial, MoveUpload, Locking, Records, Typed, UploadType, UploadPcs, UploadDone, Inodes, Locks, Digests
    <2> QED BY <1>a, <1>2, <2>1 DEF ImportInv, Staged
<1>4. PreviewsKept
    BY DEF ImportInv, PreviewsKept, RenamePartial, MoveUpload, Locking, Records, Typed, UploadType
<1>5. QuotaKept'
    <2>1. \A v \in Pending' : v \in Pending /\ Counted'[v] <= Counted[v]
        <3>1. \A v \in Uploads : bytes'[v] # {} /\ "meta" \in files'[v] =>
                bytes'[v] = bytes[v] /\ "meta" \in files[v]
            BY DEF ImportInv, Staged, RenamePartial, MoveUpload, Locking, Records, Typed
        <3> QED BY <1>1, <3>1, PendingShrinks DEF ImportInv
    <2>2. \A v \in Uploads : upload'[v].handle \in {upload[v].handle, {}}
        BY DEF ImportInv, Staged, RenamePartial, MoveUpload, Locking, Records, Typed, UploadType
    <2>3. \A v \in Counting' : v \in Counting /\ upload'[v].digest = upload[v].digest
        BY DEF ImportInv, Counting, RenamePartial, MoveUpload, Locking, Records, Typed, UploadType
    <2>4. named'["quota"] = named["quota"] /\ slipped \subseteq slipped'
        BY <1>a, ImportAssumption DEF ImportInv, RenamePartial, MoveUpload, Locking, Records, Typed, Locks
    <2> QED BY <1>1, <2>1, <2>2, <2>3, <2>4, QuotaFrame DEF ImportInv
<1>6. \A v \in Uploads : named'[v] # {} => named[v] # {}
    BY ImportAssumption DEF ImportInv, RenamePartial, MoveUpload, Locking, Records, Typed, Locks
<1>7. \A v \in Uploads :
        upload'[v].pc = "previewed" /\ bytes'[v] = {} /\ ~upload'[v].old =>
            /\ upload[v].pc = "previewed" /\ bytes[v] = {} /\ ~upload[v].old
            /\ upload'[v].digest = upload[v].digest
    BY DEF ImportInv, Staged, RenamePartial, MoveUpload, Locking, Records, Typed, UploadType
<1>8. UNCHANGED <<confirm, packages, json, jsonFiles>>
    BY DEF RenamePartial, MoveUpload, Locking, Records
<1> QED BY <1>a, <1>1, <1>3, <1>4, <1>5, <1>6, <1>7, <1>8, UploadFrame


LEMMA WriteFailsKeeps ==
    ASSUME ImportInv, NEW u \in Uploads, WriteFails(u)
    PROVE  ImportInv'
<1>a. litter \subseteq litter' /\ slipped \subseteq slipped'
    BY DEF ImportInv, WriteFails, LeaveQuota, LeavesLitter, Unlink, Records
<1>1. Typed'
    <2>1. upload'[u] \in UploadType
        <3>1. upload[u] \in UploadType BY DEF ImportInv, Typed
        <3>2. upload'[u] = [upload[u] EXCEPT !.pc = "refused", !.handle = {}]
            BY DEF ImportInv, Typed, WriteFails, LeaveQuota
        <3> QED BY <3>1, <3>2 DEF UploadType, UploadPcs, UploadDone, Inodes
    <2>2. upload' \in [Uploads -> UploadType]
        BY <2>1 DEF ImportInv, WriteFails, LeaveQuota, LeavesLitter, Unlink, Records, Typed
    <2>3. /\ files' \in [Uploads -> SUBSET {"partial", "meta"}]
          /\ bytes' \in [Uploads -> {{}} \cup {{x} : x \in Digests}]
        BY DEF ImportInv, WriteFails, LeaveQuota, LeavesLitter, Unlink, Records, Typed
    <2>4. /\ named' \in [Locks -> Inodes] /\ oldLocks' \in SUBSET Locks
          /\ \A l \in oldLocks' : named'[l] # {}
        BY DEF ImportInv, WriteFails, LeaveQuota, LeavesLitter, Unlink, Records, Typed, Locks, Inodes
    <2>5. confirm' = confirm /\ packages' = packages /\ json' = json
          /\ slipped' \in SUBSET {"lock", "scan", "read"} /\ litter' \in SUBSET Uploads
        BY DEF ImportInv, WriteFails, LeaveQuota, LeavesLitter, Unlink, Records, Typed
    <2> QED BY <2>2, <2>3, <2>4, <2>5 DEF ImportInv, Typed
<1>2. \A v \in Uploads : v # u =>
        upload'[v] = upload[v] /\ files'[v] = files[v] /\ bytes'[v] = bytes[v]
    BY DEF ImportInv, WriteFails, LeaveQuota, LeavesLitter, Unlink, Records, Typed
<1>3. \A v \in Uploads : Staged(v)'
    <2>1. Staged(u)'
        <3>1. /\ upload'[u].pc = "refused" /\ upload'[u].handle = {}
              /\ upload'[u].code = upload[u].code /\ upload'[u].digest = upload[u].digest
              /\ upload'[u].old = upload[u].old /\ ~upload[u].old
              /\ upload[u].pc # "start"
            BY DEF ImportInv, Typed, UploadType, Staged, WriteFails, LeaveQuota
        <3>2. u \in litter' \/ (files'[u] = {} /\ bytes'[u] = {})
            BY DEF ImportInv, Typed, WriteFails, LeavesLitter
        <3>3. Staged(u) BY DEF ImportInv
        <3> QED BY <3>1, <3>2, <3>3 DEF Staged
    <2> QED BY <1>a, <1>2, <2>1 DEF ImportInv, Staged
<1>4. PreviewsKept
    BY DEF ImportInv, PreviewsKept, WriteFails, LeaveQuota, LeavesLitter, Unlink, Records, Typed, UploadType
<1>5. QuotaKept'
    <2>1. \A v \in Pending' : v \in Pending /\ Counted'[v] <= Counted[v]
        <3>1. \A v \in Uploads : bytes'[v] # {} /\ "meta" \in files'[v] =>
                bytes'[v] = bytes[v] /\ "meta" \in files[v]
            BY DEF ImportInv, Staged, WriteFails, LeaveQuota, LeavesLitter, Unlink, Records, Typed
        <3> QED BY <1>1, <3>1, PendingShrinks DEF ImportInv
    <2>2. \A v \in Uploads : upload'[v].handle \in {upload[v].handle, {}}
        BY DEF ImportInv, Staged, WriteFails, LeaveQuota, LeavesLitter, Unlink, Records, Typed, UploadType
    <2>3. \A v \in Counting' : v \in Counting /\ upload'[v].digest = upload[v].digest
        BY DEF ImportInv, Counting, WriteFails, LeaveQuota, LeavesLitter, Unlink, Records, Typed, UploadType
    <2>4. named'["quota"] = named["quota"] /\ slipped \subseteq slipped'
        BY <1>a, ImportAssumption DEF ImportInv, WriteFails, LeaveQuota, LeavesLitter, Unlink, Records, Typed, Locks
    <2> QED BY <1>1, <2>1, <2>2, <2>3, <2>4, QuotaFrame DEF ImportInv
<1>6. \A v \in Uploads : named'[v] # {} => named[v] # {}
    BY ImportAssumption DEF ImportInv, WriteFails, LeaveQuota, LeavesLitter, Unlink, Records, Typed, Locks
<1>7. \A v \in Uploads :
        upload'[v].pc = "previewed" /\ bytes'[v] = {} /\ ~upload'[v].old =>
            /\ upload[v].pc = "previewed" /\ bytes[v] = {} /\ ~upload[v].old
            /\ upload'[v].digest = upload[v].digest
    BY DEF ImportInv, Staged, WriteFails, LeaveQuota, LeavesLitter, Unlink, Records, Typed, UploadType
<1>8. UNCHANGED <<confirm, packages, json, jsonFiles>>
    BY DEF WriteFails, LeaveQuota, LeavesLitter, Unlink, Records
<1> QED BY <1>a, <1>1, <1>3, <1>4, <1>5, <1>6, <1>7, <1>8, UploadFrame


\* The two outcomes of inspecting a staged file.
Passes(u, x) ==
    /\ upload[u].pc = "inspecting" /\ bytes[u] = {x} /\ Sound[x]
    /\ upload' = [upload EXCEPT ![u] = [@ EXCEPT !.pc = "previewed", !.digest = x]]
    /\ UNCHANGED <<confirm, Staging, Records, faults>>
Fails(u) ==
    /\ upload[u].pc = "inspecting"
    /\ MoveUpload(u, "refused") /\ Cleared(u)
    /\ UNCHANGED <<slipped, confirm, Records>>

LEMMA InspectOutcomes ==
    ASSUME ImportInv, NEW u \in Uploads, Inspect(u)
    PROVE  Fails(u) \/ \E x \in Digests : Passes(u, x)
<1>1. CASE \E d \in bytes[u] : Sound[d]
    <2>1. PICK x \in Digests : bytes[u] = {x}
        BY <1>1 DEF ImportInv, Typed
    <2>2. (CHOOSE d \in bytes[u] : TRUE) = x /\ Sound[x] BY <1>1, <2>1
    <2> QED BY <1>1, <2>1, <2>2 DEF Inspect, Passes
<1>2. CASE ~ \E d \in bytes[u] : Sound[d]
    BY <1>2, CleanUpClears DEF Inspect, Fails
<1> QED BY <1>1, <1>2


LEMMA PassesKeeps ==
    ASSUME ImportInv, NEW u \in Uploads, NEW digest \in Digests, Passes(u, digest)
    PROVE  ImportInv'
<1>a. litter \subseteq litter' /\ slipped \subseteq slipped'
    BY DEF ImportInv, Passes, Staging, Locking, Records
<1>1. Typed'
    <2>1. upload'[u] \in UploadType
        <3>1. upload[u] \in UploadType BY DEF ImportInv, Typed
        <3>2. upload'[u] = [upload[u] EXCEPT !.pc = "previewed", !.digest = digest]
            BY DEF ImportInv, Passes, Typed
        <3> QED BY <3>1, <3>2 DEF UploadType, UploadPcs, UploadDone
    <2>2. upload' \in [Uploads -> UploadType]
        BY <2>1 DEF ImportInv, Passes, Staging, Locking, Records, Typed
    <2>3. /\ files' \in [Uploads -> SUBSET {"partial", "meta"}]
          /\ bytes' \in [Uploads -> {{}} \cup {{x} : x \in Digests}]
        BY DEF ImportInv, Passes, Staging, Locking, Records, Typed
    <2>4. /\ named' \in [Locks -> Inodes] /\ oldLocks' \in SUBSET Locks
          /\ \A l \in oldLocks' : named'[l] # {}
        BY DEF ImportInv, Passes, Staging, Locking, Records, Typed, Locks, Inodes
    <2>5. confirm' = confirm /\ packages' = packages /\ json' = json
          /\ slipped' \in SUBSET {"lock", "scan", "read"} /\ litter' \in SUBSET Uploads
        BY DEF ImportInv, Passes, Staging, Locking, Records, Typed
    <2> QED BY <2>2, <2>3, <2>4, <2>5 DEF ImportInv, Typed
<1>2. \A v \in Uploads : v # u =>
        upload'[v] = upload[v] /\ files'[v] = files[v] /\ bytes'[v] = bytes[v]
    BY DEF ImportInv, Passes, Staging, Locking, Records, Typed
<1>3. \A v \in Uploads : Staged(v)'
    <2>1. Staged(u)'
        BY DEF ImportInv, Staged, Passes, Staging, Locking, Records, Typed, UploadType, UploadPcs, UploadDone, Inodes, Locks, Digests
    <2> QED BY <1>a, <1>2, <2>1 DEF ImportInv, Staged
<1>4. PreviewsKept
    BY DEF ImportInv, PreviewsKept, Passes, Staging, Locking, Records, Typed, UploadType
<1>5. QuotaKept'
    <2>1. \A v \in Pending' : v \in Pending /\ Counted'[v] <= Counted[v]
        <3>1. \A v \in Uploads : bytes'[v] # {} /\ "meta" \in files'[v] =>
                bytes'[v] = bytes[v] /\ "meta" \in files[v]
            BY DEF ImportInv, Staged, Passes, Staging, Locking, Records, Typed
        <3> QED BY <1>1, <3>1, PendingShrinks DEF ImportInv
    <2>2. \A v \in Uploads : upload'[v].handle \in {upload[v].handle, {}}
        BY DEF ImportInv, Staged, Passes, Staging, Locking, Records, Typed, UploadType
    <2>3. \A v \in Counting' : v \in Counting /\ upload'[v].digest = upload[v].digest
        BY DEF ImportInv, Counting, Passes, Staging, Locking, Records, Typed, UploadType
    <2>4. named'["quota"] = named["quota"] /\ slipped \subseteq slipped'
        BY <1>a, ImportAssumption DEF ImportInv, Passes, Staging, Locking, Records, Typed, Locks
    <2> QED BY <1>1, <2>1, <2>2, <2>3, <2>4, QuotaFrame DEF ImportInv
<1>6. \A v \in Uploads : named'[v] # {} => named[v] # {}
    BY ImportAssumption DEF ImportInv, Passes, Staging, Locking, Records, Typed, Locks
<1>7. \A v \in Uploads :
        upload'[v].pc = "previewed" /\ bytes'[v] = {} /\ ~upload'[v].old =>
            /\ upload[v].pc = "previewed" /\ bytes[v] = {} /\ ~upload[v].old
            /\ upload'[v].digest = upload[v].digest
    BY DEF ImportInv, Staged, Passes, Staging, Locking, Records, Typed, UploadType
<1>8. UNCHANGED <<confirm, packages, json, jsonFiles>>
    BY DEF Passes, Staging, Locking, Records
<1> QED BY <1>a, <1>1, <1>3, <1>4, <1>5, <1>6, <1>7, <1>8, UploadFrame


LEMMA FailsKeeps ==
    ASSUME ImportInv, NEW u \in Uploads, Fails(u)
    PROVE  ImportInv'
<1>a. litter \subseteq litter' /\ slipped \subseteq slipped'
    BY DEF ImportInv, Fails, MoveUpload, Cleared, Records
<1>1. Typed'
    <2>1. upload'[u] \in UploadType
        <3>1. upload[u] \in UploadType BY DEF ImportInv, Typed
        <3>2. upload'[u] = [upload[u] EXCEPT !.pc = "refused"]
            BY DEF ImportInv, Typed, Fails, MoveUpload
        <3>3. "refused" \in UploadPcs BY DEF UploadPcs, UploadDone
        <3> QED BY <3>1, <3>2, <3>3 DEF UploadType
    <2>2. upload' \in [Uploads -> UploadType]
        BY <2>1 DEF ImportInv, Fails, MoveUpload, Cleared, Records, Typed
    <2>3. /\ files' \in [Uploads -> SUBSET {"partial", "meta"}]
          /\ bytes' \in [Uploads -> {{}} \cup {{x} : x \in Digests}]
        BY DEF ImportInv, Fails, MoveUpload, Cleared, Records, Typed
    <2>4. /\ named' \in [Locks -> Inodes] /\ oldLocks' \in SUBSET Locks
          /\ \A l \in oldLocks' : named'[l] # {}
        BY DEF ImportInv, Fails, MoveUpload, Cleared, Records, Typed, Locks, Inodes
    <2>5. confirm' = confirm /\ packages' = packages /\ json' = json
          /\ slipped' \in SUBSET {"lock", "scan", "read"} /\ litter' \in SUBSET Uploads
        BY DEF ImportInv, Fails, MoveUpload, Cleared, Records, Typed
    <2> QED BY <2>2, <2>3, <2>4, <2>5 DEF ImportInv, Typed
<1>2. \A v \in Uploads : v # u =>
        upload'[v] = upload[v] /\ files'[v] = files[v] /\ bytes'[v] = bytes[v]
    BY DEF ImportInv, Fails, MoveUpload, Cleared, Records, Typed
<1>3. \A v \in Uploads : Staged(v)'
    <2>1. Staged(u)'
        <3>1. /\ bytes'[u] \in {bytes[u], {}} /\ files'[u] \in {files[u], files[u] \ {"meta"}}
              /\ u \in litter' \/ (bytes'[u] = {} /\ files'[u] = files[u] \ {"meta"})
            BY DEF ImportInv, Typed, Cleared, Fails
        <3>2. /\ upload[u].pc = "inspecting" /\ upload'[u].pc = "refused"
              /\ upload'[u].handle = upload[u].handle /\ upload'[u].old = upload[u].old
              /\ upload'[u].code = upload[u].code /\ upload'[u].digest = upload[u].digest
            BY DEF ImportInv, Typed, UploadType, Fails, MoveUpload
        <3>3. Staged(u) BY DEF ImportInv
        <3>4. u \in litter' \/ (bytes'[u] = {} /\ files'[u] = {})
            <4>1. files[u] \subseteq {"meta"} BY <3>2, <3>3 DEF Staged
            <4> QED BY <3>1, <4>1
        <3>5. upload'[u].code \in Codes /\ upload'[u].digest \in Digests
            BY <3>2, <3>3 DEF Staged
        <3>6. upload'[u].handle = {} BY <3>2, <3>3 DEF Staged
        <3> QED BY <3>2, <3>4, <3>5, <3>6 DEF Staged
    <2> QED BY <1>a, <1>2, <2>1 DEF ImportInv, Staged
<1>4. PreviewsKept
    BY DEF ImportInv, PreviewsKept, Fails, MoveUpload, Cleared, Records, Typed, UploadType
<1>5. QuotaKept'
    <2>1. \A v \in Pending' : v \in Pending /\ Counted'[v] <= Counted[v]
        <3>1. \A v \in Uploads : bytes'[v] # {} /\ "meta" \in files'[v] =>
                bytes'[v] = bytes[v] /\ "meta" \in files[v]
            BY DEF ImportInv, Staged, Fails, MoveUpload, Cleared, Records, Typed
        <3> QED BY <1>1, <3>1, PendingShrinks DEF ImportInv
    <2>2. \A v \in Uploads : upload'[v].handle \in {upload[v].handle, {}}
        BY DEF ImportInv, Staged, Fails, MoveUpload, Cleared, Records, Typed, UploadType
    <2>3. \A v \in Counting' : v \in Counting /\ upload'[v].digest = upload[v].digest
        BY DEF ImportInv, Counting, Fails, MoveUpload, Cleared, Records, Typed, UploadType
    <2>4. named'["quota"] = named["quota"] /\ slipped \subseteq slipped'
        BY <1>a, ImportAssumption DEF ImportInv, Fails, MoveUpload, Cleared, Records, Typed, Locks
    <2> QED BY <1>1, <2>1, <2>2, <2>3, <2>4, QuotaFrame DEF ImportInv
<1>6. \A v \in Uploads : named'[v] # {} => named[v] # {}
    BY ImportAssumption DEF ImportInv, Fails, MoveUpload, Cleared, Records, Typed, Locks
<1>7. \A v \in Uploads :
        upload'[v].pc = "previewed" /\ bytes'[v] = {} /\ ~upload'[v].old =>
            /\ upload[v].pc = "previewed" /\ bytes[v] = {} /\ ~upload[v].old
            /\ upload'[v].digest = upload[v].digest
    BY DEF ImportInv, Staged, Fails, MoveUpload, Cleared, Records, Typed, UploadType
<1>8. UNCHANGED <<confirm, packages, json, jsonFiles>>
    BY DEF Fails, MoveUpload, Cleared, Records
<1> QED BY <1>a, <1>1, <1>3, <1>4, <1>5, <1>6, <1>7, <1>8, UploadFrame


LEMMA CrashUploadKeeps ==
    ASSUME ImportInv, NEW u \in Uploads, CrashUpload(u)
    PROVE  ImportInv'
<1>a. litter \subseteq litter' /\ slipped \subseteq slipped'
    BY DEF ImportInv, CrashUpload, Fault, LeaveQuota, Staging, Locking, Records
<1>1. Typed'
    <2>1. upload'[u] \in UploadType
        <3>1. upload[u] \in UploadType BY DEF ImportInv, Typed
        <3>2. upload'[u] = [upload[u] EXCEPT !.pc = "crashed", !.handle = {}]
            BY DEF ImportInv, Typed, CrashUpload, LeaveQuota
        <3> QED BY <3>1, <3>2 DEF UploadType, UploadPcs, UploadDone, Inodes
    <2>2. upload' \in [Uploads -> UploadType]
        BY <2>1 DEF ImportInv, CrashUpload, Fault, LeaveQuota, Staging, Locking, Records, Typed
    <2>3. /\ files' \in [Uploads -> SUBSET {"partial", "meta"}]
          /\ bytes' \in [Uploads -> {{}} \cup {{x} : x \in Digests}]
        BY DEF ImportInv, CrashUpload, Fault, LeaveQuota, Staging, Locking, Records, Typed
    <2>4. /\ named' \in [Locks -> Inodes] /\ oldLocks' \in SUBSET Locks
          /\ \A l \in oldLocks' : named'[l] # {}
        BY DEF ImportInv, CrashUpload, Fault, LeaveQuota, Staging, Locking, Records, Typed, Locks, Inodes
    <2>5. confirm' = confirm /\ packages' = packages /\ json' = json
          /\ slipped' \in SUBSET {"lock", "scan", "read"} /\ litter' \in SUBSET Uploads
        BY DEF ImportInv, CrashUpload, Fault, LeaveQuota, Staging, Locking, Records, Typed
    <2> QED BY <2>2, <2>3, <2>4, <2>5 DEF ImportInv, Typed
<1>2. \A v \in Uploads : v # u =>
        upload'[v] = upload[v] /\ files'[v] = files[v] /\ bytes'[v] = bytes[v]
    BY DEF ImportInv, CrashUpload, Fault, LeaveQuota, Staging, Locking, Records, Typed
<1>3. \A v \in Uploads : Staged(v)'
    <2>1. Staged(u)'
        BY DEF ImportInv, Staged, CrashUpload, Fault, LeaveQuota, Staging, Locking, Records, Typed, UploadType, UploadPcs, UploadDone, Inodes, Locks, Digests
    <2> QED BY <1>a, <1>2, <2>1 DEF ImportInv, Staged
<1>4. PreviewsKept
    BY DEF ImportInv, PreviewsKept, CrashUpload, Fault, LeaveQuota, Staging, Locking, Records, Typed, UploadType
<1>5. QuotaKept'
    <2>1. \A v \in Pending' : v \in Pending /\ Counted'[v] <= Counted[v]
        <3>1. \A v \in Uploads : bytes'[v] # {} /\ "meta" \in files'[v] =>
                bytes'[v] = bytes[v] /\ "meta" \in files[v]
            BY DEF ImportInv, Staged, CrashUpload, Fault, LeaveQuota, Staging, Locking, Records, Typed
        <3> QED BY <1>1, <3>1, PendingShrinks DEF ImportInv
    <2>2. \A v \in Uploads : upload'[v].handle \in {upload[v].handle, {}}
        BY DEF ImportInv, Staged, CrashUpload, Fault, LeaveQuota, Staging, Locking, Records, Typed, UploadType
    <2>3. \A v \in Counting' : v \in Counting /\ upload'[v].digest = upload[v].digest
        BY DEF ImportInv, Counting, CrashUpload, Fault, LeaveQuota, Staging, Locking, Records, Typed, UploadType
    <2>4. named'["quota"] = named["quota"] /\ slipped \subseteq slipped'
        BY <1>a, ImportAssumption DEF ImportInv, CrashUpload, Fault, LeaveQuota, Staging, Locking, Records, Typed, Locks
    <2> QED BY <1>1, <2>1, <2>2, <2>3, <2>4, QuotaFrame DEF ImportInv
<1>6. \A v \in Uploads : named'[v] # {} => named[v] # {}
    BY ImportAssumption DEF ImportInv, CrashUpload, Fault, LeaveQuota, Staging, Locking, Records, Typed, Locks
<1>7. \A v \in Uploads :
        upload'[v].pc = "previewed" /\ bytes'[v] = {} /\ ~upload'[v].old =>
            /\ upload[v].pc = "previewed" /\ bytes[v] = {} /\ ~upload[v].old
            /\ upload'[v].digest = upload[v].digest
    BY DEF ImportInv, Staged, CrashUpload, Fault, LeaveQuota, Staging, Locking, Records, Typed, UploadType
<1>8. UNCHANGED <<confirm, packages, json, jsonFiles>>
    BY DEF CrashUpload, Fault, LeaveQuota, Staging, Locking, Records
<1> QED BY <1>a, <1>1, <1>3, <1>4, <1>5, <1>6, <1>7, <1>8, UploadFrame


LEMMA ExpireKeeps ==
    ASSUME ImportInv, NEW u \in Uploads, Expire(u)
    PROVE  ImportInv'
<1>a. litter \subseteq litter' /\ slipped \subseteq slipped'
    BY DEF ImportInv, Expire, Fault, Staging, Locking, Records
<1>1. Typed'
    <2>1. upload'[u] \in UploadType
        <3>1. upload[u] \in UploadType BY DEF ImportInv, Typed
        <3>2. upload'[u] = [upload[u] EXCEPT !.old = TRUE]
            BY DEF ImportInv, Typed, Expire
        <3> QED BY <3>1, <3>2 DEF UploadType, UploadPcs, UploadDone, Inodes
    <2>2. upload' \in [Uploads -> UploadType]
        BY <2>1 DEF ImportInv, Expire, Fault, Staging, Locking, Records, Typed
    <2>3. /\ files' \in [Uploads -> SUBSET {"partial", "meta"}]
          /\ bytes' \in [Uploads -> {{}} \cup {{x} : x \in Digests}]
        BY DEF ImportInv, Expire, Fault, Staging, Locking, Records, Typed
    <2>4. /\ named' \in [Locks -> Inodes] /\ oldLocks' \in SUBSET Locks
          /\ \A l \in oldLocks' : named'[l] # {}
        BY DEF ImportInv, Expire, Fault, Staging, Locking, Records, Typed, Locks, Inodes
    <2>5. confirm' = confirm /\ packages' = packages /\ json' = json
          /\ slipped' \in SUBSET {"lock", "scan", "read"} /\ litter' \in SUBSET Uploads
        BY DEF ImportInv, Expire, Fault, Staging, Locking, Records, Typed
    <2> QED BY <2>2, <2>3, <2>4, <2>5 DEF ImportInv, Typed
<1>2. \A v \in Uploads : v # u =>
        upload'[v] = upload[v] /\ files'[v] = files[v] /\ bytes'[v] = bytes[v]
    BY DEF ImportInv, Expire, Fault, Staging, Locking, Records, Typed
<1>3. \A v \in Uploads : Staged(v)'
    <2>1. Staged(u)'
        BY DEF ImportInv, Staged, Expire, Fault, Staging, Locking, Records, Typed, UploadType, UploadPcs, UploadDone, Inodes, Locks, Digests
    <2> QED BY <1>a, <1>2, <2>1 DEF ImportInv, Staged
<1>4. PreviewsKept
    BY DEF ImportInv, PreviewsKept, Expire, Fault, Staging, Locking, Records, Typed, UploadType
<1>5. QuotaKept'
    <2>1. \A v \in Pending' : v \in Pending /\ Counted'[v] <= Counted[v]
        <3>1. \A v \in Uploads : bytes'[v] # {} /\ "meta" \in files'[v] =>
                bytes'[v] = bytes[v] /\ "meta" \in files[v]
            BY DEF ImportInv, Staged, Expire, Fault, Staging, Locking, Records, Typed
        <3> QED BY <1>1, <3>1, PendingShrinks DEF ImportInv
    <2>2. \A v \in Uploads : upload'[v].handle \in {upload[v].handle, {}}
        BY DEF ImportInv, Staged, Expire, Fault, Staging, Locking, Records, Typed, UploadType
    <2>3. \A v \in Counting' : v \in Counting /\ upload'[v].digest = upload[v].digest
        BY DEF ImportInv, Counting, Expire, Fault, Staging, Locking, Records, Typed, UploadType
    <2>4. named'["quota"] = named["quota"] /\ slipped \subseteq slipped'
        BY <1>a, ImportAssumption DEF ImportInv, Expire, Fault, Staging, Locking, Records, Typed, Locks
    <2> QED BY <1>1, <2>1, <2>2, <2>3, <2>4, QuotaFrame DEF ImportInv
<1>6. \A v \in Uploads : named'[v] # {} => named[v] # {}
    BY ImportAssumption DEF ImportInv, Expire, Fault, Staging, Locking, Records, Typed, Locks
<1>7. \A v \in Uploads :
        upload'[v].pc = "previewed" /\ bytes'[v] = {} /\ ~upload'[v].old =>
            /\ upload[v].pc = "previewed" /\ bytes[v] = {} /\ ~upload[v].old
            /\ upload'[v].digest = upload[v].digest
    BY DEF ImportInv, Staged, Expire, Fault, Staging, Locking, Records, Typed, UploadType
<1>8. UNCHANGED <<confirm, packages, json, jsonFiles>>
    BY DEF Expire, Fault, Staging, Locking, Records
<1> QED BY <1>a, <1>1, <1>3, <1>4, <1>5, <1>6, <1>7, <1>8, UploadFrame


\* The two outcomes of the wait for the quota.
Enters(u) ==
    /\ upload[u].pc = "waiting" /\ Holders(upload[u].handle) = {}
    /\ slipped \subseteq slipped' /\ slipped' \in SUBSET {"lock", "scan", "read"}
    /\ slipped' = {} => RoomFor(u)
    /\ MoveUpload(u, "writing") /\ files' = [files EXCEPT ![u] = {"partial"}]
    /\ UNCHANGED <<bytes, confirm, named, oldLocks, litter, Records>>
TurnedAway(u) ==
    /\ upload[u].pc = "waiting" /\ LeaveQuota(u, "refused")
    /\ slipped \subseteq slipped' /\ slipped' \in SUBSET {"lock", "scan", "read"}
    /\ UNCHANGED <<files, bytes, confirm, named, oldLocks, litter, Records>>

LEMMA EnterQuotaOutcomes ==
    ASSUME ImportInv, NEW u \in Uploads, EnterQuota(u)
    PROVE  Enters(u) \/ TurnedAway(u)
<1>1. PICK seen \in SUBSET Pending : \E sized \in SUBSET seen :
        /\ Counts(u, seen, sized)
        /\ IF Room(u, seen, sized) THEN /\ MoveUpload(u, "writing")
                                        /\ files' = [files EXCEPT ![u] = {"partial"}]
                                   ELSE LeaveQuota(u, "refused") /\ UNCHANGED files
    BY DEF EnterQuota
<1>2. PICK sized \in SUBSET seen :
        /\ Counts(u, seen, sized)
        /\ IF Room(u, seen, sized) THEN /\ MoveUpload(u, "writing")
                                        /\ files' = [files EXCEPT ![u] = {"partial"}]
                                   ELSE LeaveQuota(u, "refused") /\ UNCHANGED files
    BY <1>1
<1>3. PICK how \in {"scan", "read"} :
        slipped' = IF Room(u, seen, sized) /\ ~Room(u, Pending, Pending)
                   THEN slipped \cup {how} ELSE slipped
    BY <1>2 DEF Counts
<1>4. slipped \subseteq slipped' /\ slipped' \in SUBSET {"lock", "scan", "read"}
    BY <1>3 DEF ImportInv, Typed
<1>5. Room(u, seen, sized) /\ slipped' = {} => RoomFor(u)
    BY <1>3, PendingSum
<1> QED BY <1>2, <1>4, <1>5 DEF EnterQuota, Enters, TurnedAway


LEMMA TurnedAwayKeeps ==
    ASSUME ImportInv, NEW u \in Uploads, TurnedAway(u)
    PROVE  ImportInv'
<1>a. litter \subseteq litter' /\ slipped \subseteq slipped'
    BY DEF ImportInv, TurnedAway, LeaveQuota, Records
<1>1. Typed'
    <2>1. upload'[u] \in UploadType
        <3>1. upload[u] \in UploadType BY DEF ImportInv, Typed
        <3>2. upload'[u] = [upload[u] EXCEPT !.pc = "refused", !.handle = {}]
            BY DEF ImportInv, Typed, TurnedAway, LeaveQuota
        <3> QED BY <3>1, <3>2 DEF UploadType, UploadPcs, UploadDone, Inodes
    <2>2. upload' \in [Uploads -> UploadType]
        BY <2>1 DEF ImportInv, TurnedAway, LeaveQuota, Records, Typed
    <2>3. /\ files' \in [Uploads -> SUBSET {"partial", "meta"}]
          /\ bytes' \in [Uploads -> {{}} \cup {{x} : x \in Digests}]
        BY DEF ImportInv, TurnedAway, LeaveQuota, Records, Typed
    <2>4. /\ named' \in [Locks -> Inodes] /\ oldLocks' \in SUBSET Locks
          /\ \A l \in oldLocks' : named'[l] # {}
        BY DEF ImportInv, TurnedAway, LeaveQuota, Records, Typed, Locks, Inodes
    <2>5. confirm' = confirm /\ packages' = packages /\ json' = json
          /\ slipped' \in SUBSET {"lock", "scan", "read"} /\ litter' \in SUBSET Uploads
        BY DEF ImportInv, TurnedAway, LeaveQuota, Records, Typed
    <2> QED BY <2>2, <2>3, <2>4, <2>5 DEF ImportInv, Typed
<1>2. \A v \in Uploads : v # u =>
        upload'[v] = upload[v] /\ files'[v] = files[v] /\ bytes'[v] = bytes[v]
    BY DEF ImportInv, TurnedAway, LeaveQuota, Records, Typed
<1>3. \A v \in Uploads : Staged(v)'
    <2>1. Staged(u)'
        BY DEF ImportInv, Staged, TurnedAway, LeaveQuota, Records, Typed, UploadType, UploadPcs, UploadDone, Inodes, Locks, Digests
    <2> QED BY <1>a, <1>2, <2>1 DEF ImportInv, Staged
<1>4. PreviewsKept
    BY DEF ImportInv, PreviewsKept, TurnedAway, LeaveQuota, Records, Typed, UploadType
<1>5. QuotaKept'
    <2>1. \A v \in Pending' : v \in Pending /\ Counted'[v] <= Counted[v]
        <3>1. \A v \in Uploads : bytes'[v] # {} /\ "meta" \in files'[v] =>
                bytes'[v] = bytes[v] /\ "meta" \in files[v]
            BY DEF ImportInv, Staged, TurnedAway, LeaveQuota, Records, Typed
        <3> QED BY <1>1, <3>1, PendingShrinks DEF ImportInv
    <2>2. \A v \in Uploads : upload'[v].handle \in {upload[v].handle, {}}
        BY DEF ImportInv, Staged, TurnedAway, LeaveQuota, Records, Typed, UploadType
    <2>3. \A v \in Counting' : v \in Counting /\ upload'[v].digest = upload[v].digest
        BY DEF ImportInv, Counting, TurnedAway, LeaveQuota, Records, Typed, UploadType
    <2>4. named'["quota"] = named["quota"] /\ slipped \subseteq slipped'
        BY <1>a, ImportAssumption DEF ImportInv, TurnedAway, LeaveQuota, Records, Typed, Locks
    <2> QED BY <1>1, <2>1, <2>2, <2>3, <2>4, QuotaFrame DEF ImportInv
<1>6. \A v \in Uploads : named'[v] # {} => named[v] # {}
    BY ImportAssumption DEF ImportInv, TurnedAway, LeaveQuota, Records, Typed, Locks
<1>7. \A v \in Uploads :
        upload'[v].pc = "previewed" /\ bytes'[v] = {} /\ ~upload'[v].old =>
            /\ upload[v].pc = "previewed" /\ bytes[v] = {} /\ ~upload[v].old
            /\ upload'[v].digest = upload[v].digest
    BY DEF ImportInv, Staged, TurnedAway, LeaveQuota, Records, Typed, UploadType
<1>8. UNCHANGED <<confirm, packages, json, jsonFiles>>
    BY DEF TurnedAway, LeaveQuota, Records
<1> QED BY <1>a, <1>1, <1>3, <1>4, <1>5, <1>6, <1>7, <1>8, UploadFrame


LEMMA EntersKeeps ==
    ASSUME ImportInv, NEW u \in Uploads, Enters(u)
    PROVE  ImportInv'
<1>a. litter \subseteq litter' /\ slipped \subseteq slipped'
    BY DEF ImportInv, Enters, MoveUpload, Records
<1>1. Typed'
    <2>1. upload'[u] \in UploadType
        <3>1. upload[u] \in UploadType BY DEF ImportInv, Typed
        <3>2. upload'[u] = [upload[u] EXCEPT !.pc = "writing"]
            BY DEF ImportInv, Typed, Enters, MoveUpload
        <3> QED BY <3>1, <3>2 DEF UploadType, UploadPcs, UploadDone, Inodes
    <2>2. upload' \in [Uploads -> UploadType]
        BY <2>1 DEF ImportInv, Enters, MoveUpload, Records, Typed
    <2>3. /\ files' \in [Uploads -> SUBSET {"partial", "meta"}]
          /\ bytes' \in [Uploads -> {{}} \cup {{x} : x \in Digests}]
        BY DEF ImportInv, Enters, MoveUpload, Records, Typed
    <2>4. /\ named' \in [Locks -> Inodes] /\ oldLocks' \in SUBSET Locks
          /\ \A l \in oldLocks' : named'[l] # {}
        BY DEF ImportInv, Enters, MoveUpload, Records, Typed, Locks, Inodes
    <2>5. confirm' = confirm /\ packages' = packages /\ json' = json
          /\ slipped' \in SUBSET {"lock", "scan", "read"} /\ litter' \in SUBSET Uploads
        BY DEF ImportInv, Enters, MoveUpload, Records, Typed
    <2> QED BY <2>2, <2>3, <2>4, <2>5 DEF ImportInv, Typed
<1>2. \A v \in Uploads : v # u =>
        upload'[v] = upload[v] /\ files'[v] = files[v] /\ bytes'[v] = bytes[v]
    BY DEF ImportInv, Enters, MoveUpload, Records, Typed
<1>3. \A v \in Uploads : Staged(v)'
    <2>1. Staged(u)'
        BY DEF ImportInv, Staged, Enters, MoveUpload, Records, Typed, UploadType, UploadPcs, UploadDone, Inodes, Locks, Digests
    <2> QED BY <1>a, <1>2, <2>1 DEF ImportInv, Staged
<1>4. PreviewsKept
    BY DEF ImportInv, PreviewsKept, Enters, MoveUpload, Records, Typed, UploadType
<1>5. QuotaKept'
    <2> SUFFICES ASSUME slipped' = {} PROVE QuotaKept' BY DEF QuotaKept
    <2>1. slipped = {} /\ RoomFor(u) BY DEF Enters
    <2>2. /\ \A v \in Uploads : upload[v].handle # {} => upload[v].handle = named["quota"]
          /\ Cardinality(Pending) <= MaxPending /\ PendingBytes <= MaxPendingBytes
        BY <2>1 DEF ImportInv, QuotaKept
    <2>3. Counting = {}
        <3>1. upload[u].handle # {} BY DEF ImportInv, Staged, Enters
        <3>2. \A v \in Counting : v \in Uploads /\ upload[v].handle = upload[u].handle
            BY <2>2, <3>1 DEF ImportInv, Staged, Counting
        <3>3. \A v \in Counting : v \in Holders(upload[u].handle)
            BY <3>2 DEF Holders, HandleOf
        <3> QED BY <3>3 DEF Enters
    <2>4. Counting' = {u}
        BY <2>3, <1>2 DEF ImportInv, Counting, Enters, MoveUpload, Typed, UploadType
    <2>5. Pending' = Pending /\ Counted' = Counted
        <3>1. Pending' = Pending
            BY <1>2 DEF ImportInv, Staged, Pending, Enters, Typed
        <3> QED BY <3>1 DEF Counted, Enters
    <2>6. PendingBytes' = PendingBytes BY <2>5, PendingSum
    <2>7. RoomFor(u)'
        <3>1. upload'[u].digest = upload[u].digest
            BY DEF ImportInv, Enters, MoveUpload, Typed, UploadType
        <3> QED BY <2>1, <2>5, <2>6, <3>1 DEF RoomFor
    <2>8. \A v \in Uploads : upload'[v].handle = upload[v].handle
        BY DEF ImportInv, Enters, MoveUpload, Typed, UploadType
    <2>9. named' = named BY DEF Enters
    <2> QED BY <2>2, <2>4, <2>5, <2>6, <2>7, <2>8, <2>9 DEF QuotaKept
<1>6. \A v \in Uploads : named'[v] # {} => named[v] # {}
    BY ImportAssumption DEF ImportInv, Enters, MoveUpload, Records, Typed, Locks
<1>7. \A v \in Uploads :
        upload'[v].pc = "previewed" /\ bytes'[v] = {} /\ ~upload'[v].old =>
            /\ upload[v].pc = "previewed" /\ bytes[v] = {} /\ ~upload[v].old
            /\ upload'[v].digest = upload[v].digest
    BY DEF ImportInv, Staged, Enters, MoveUpload, Records, Typed, UploadType
<1>8. UNCHANGED <<confirm, packages, json, jsonFiles>>
    BY DEF Enters, MoveUpload, Records
<1> QED BY <1>a, <1>1, <1>3, <1>4, <1>5, <1>6, <1>7, <1>8, UploadFrame


LEMMA DescribeKeeps ==
    ASSUME ImportInv, NEW u \in Uploads, Describe(u)
    PROVE  ImportInv'
<1>a. litter \subseteq litter' /\ slipped \subseteq slipped'
    BY DEF ImportInv, Describe, LeaveQuota, Locking, Records
<1>1. Typed'
    <2>1. upload'[u] \in UploadType
        <3>1. upload[u] \in UploadType BY DEF ImportInv, Typed
        <3>2. upload'[u] = [upload[u] EXCEPT !.pc = "inspecting", !.handle = {}]
            BY DEF ImportInv, Typed, Describe, LeaveQuota
        <3> QED BY <3>1, <3>2 DEF UploadType, UploadPcs, UploadDone, Inodes
    <2>2. upload' \in [Uploads -> UploadType]
        BY <2>1 DEF ImportInv, Describe, LeaveQuota, Locking, Records, Typed
    <2>3. /\ files' \in [Uploads -> SUBSET {"partial", "meta"}]
          /\ bytes' \in [Uploads -> {{}} \cup {{x} : x \in Digests}]
        BY DEF ImportInv, Describe, LeaveQuota, Locking, Records, Typed
    <2>4. /\ named' \in [Locks -> Inodes] /\ oldLocks' \in SUBSET Locks
          /\ \A l \in oldLocks' : named'[l] # {}
        BY DEF ImportInv, Describe, LeaveQuota, Locking, Records, Typed, Locks, Inodes
    <2>5. confirm' = confirm /\ packages' = packages /\ json' = json
          /\ slipped' \in SUBSET {"lock", "scan", "read"} /\ litter' \in SUBSET Uploads
        BY DEF ImportInv, Describe, LeaveQuota, Locking, Records, Typed
    <2> QED BY <2>2, <2>3, <2>4, <2>5 DEF ImportInv, Typed
<1>2. \A v \in Uploads : v # u =>
        upload'[v] = upload[v] /\ files'[v] = files[v] /\ bytes'[v] = bytes[v]
    BY DEF ImportInv, Describe, LeaveQuota, Locking, Records, Typed
<1>3. \A v \in Uploads : Staged(v)'
    <2>1. Staged(u)'
        BY DEF ImportInv, Staged, Describe, LeaveQuota, Locking, Records, Typed, UploadType, UploadPcs, UploadDone, Inodes, Locks, Digests
    <2> QED BY <1>a, <1>2, <2>1 DEF ImportInv, Staged
<1>4. PreviewsKept
    BY DEF ImportInv, PreviewsKept, Describe, LeaveQuota, Locking, Records, Typed, UploadType
<1>5. QuotaKept'
    <2> SUFFICES ASSUME slipped' = {} PROVE QuotaKept' BY DEF QuotaKept
    <2>1. slipped = {} BY DEF Describe, Locking
    <2>2. u \in Counting BY DEF Describe, Counting
    <2>3. /\ \A v \in Uploads : upload[v].handle # {} => upload[v].handle = named["quota"]
          /\ \A v \in Counting : v = u
          /\ RoomFor(u)
        BY <2>1, <2>2 DEF ImportInv, QuotaKept
    <2>4. Counting' = {}
        BY <2>3 DEF ImportInv, Counting, Describe, LeaveQuota, Typed, UploadType
    <2>5. PICK k \in Nat : k = Contents[upload[u].digest].bytes
        BY ImportAssumption DEF ImportInv, Staged, Describe, Digests
    <2>6. Pending' \subseteq Pending \cup {u} /\ Pending \subseteq Uploads
        BY <1>2 DEF Pending
    <2>7. \A v \in Uploads : Counted'[v] <= Counted[v] + (IF v = u THEN k ELSE 0)
        <3>1. Counted \in [Uploads -> Nat] BY CountedTyped DEF ImportInv
        <3>2. Counted'[u] \in {0, k}
            <4>1. bytes'[u] = bytes[u] BY DEF Describe
            <4>2. PICK d \in Digests : bytes[u] = {d}
                BY DEF ImportInv, Staged, Describe, Typed
            <4>3. (CHOOSE e \in bytes'[u] : TRUE) = d BY <4>1, <4>2
            <4>4. Contents[d].bytes = k
                BY <2>5, <4>2 DEF ImportInv, Staged, Describe
            <4> QED BY <4>3, <4>4 DEF Counted
        <3>3. \A v \in Uploads : v # u => Counted'[v] = Counted[v]
            <4> SUFFICES ASSUME NEW v \in Uploads, v # u PROVE Counted'[v] = Counted[v]
                OBVIOUS
            <4>1. bytes'[v] = bytes[v] /\ (v \in Pending' <=> v \in Pending)
                BY <1>2 DEF Pending
            <4>2. /\ Counted[v] = IF v \in Pending THEN Contents[CHOOSE d \in bytes[v] : TRUE].bytes
                                  ELSE 0
                  /\ Counted'[v] = IF v \in Pending' THEN Contents[CHOOSE d \in bytes'[v] : TRUE].bytes
                                   ELSE 0
                BY DEF Counted
            <4> QED BY <4>1, <4>2
        <3> QED BY <2>5, <3>1, <3>2, <3>3
    <2>8. PendingBytes \in Nat /\ PendingBytes' \in Nat /\ PendingBytes' <= PendingBytes + k
        BY <1>1, <2>5, <2>7, PendingCompare DEF ImportInv
    <2>9. Cardinality(Pending') \in Nat /\ Cardinality(Pending') <= Cardinality(Pending) + 1
        <3>1. IsFiniteSet(Pending) /\ Cardinality(Pending) \in Nat
            BY <2>6, PendingFinite DEF ImportInv
        <3>2. /\ IsFiniteSet(Pending \cup {u})
              /\ Cardinality(Pending \cup {u}) \in {Cardinality(Pending), Cardinality(Pending) + 1}
            BY <3>1, FS_AddElement
        <3> QED BY <2>6, <3>1, <3>2, FS_Subset, FS_CardinalityType
    <2>10. Cardinality(Pending') <= MaxPending /\ PendingBytes' <= MaxPendingBytes
        <3>1. Cardinality(Pending) \in Nat
            BY <2>6, PendingFinite DEF ImportInv
        <3> QED BY <2>3, <2>5, <2>8, <2>9, <3>1, ImportAssumption DEF RoomFor
    <2>11. \A v \in Uploads : upload'[v].handle # {} => upload'[v].handle = named'["quota"]
        BY <2>3 DEF ImportInv, Describe, LeaveQuota, Locking, Typed, UploadType
    <2> QED BY <2>4, <2>10, <2>11 DEF QuotaKept
<1>6. \A v \in Uploads : named'[v] # {} => named[v] # {}
    BY ImportAssumption DEF ImportInv, Describe, LeaveQuota, Locking, Records, Typed, Locks
<1>7. \A v \in Uploads :
        upload'[v].pc = "previewed" /\ bytes'[v] = {} /\ ~upload'[v].old =>
            /\ upload[v].pc = "previewed" /\ bytes[v] = {} /\ ~upload[v].old
            /\ upload'[v].digest = upload[v].digest
    BY DEF ImportInv, Staged, Describe, LeaveQuota, Locking, Records, Typed, UploadType
<1>8. UNCHANGED <<confirm, packages, json, jsonFiles>>
    BY DEF Describe, LeaveQuota, Locking, Records
<1> QED BY <1>a, <1>1, <1>3, <1>4, <1>5, <1>6, <1>7, <1>8, UploadFrame


LEMMA OpenedInode ==
    ASSUME Typed, NEW l \in Locks, NEW r \in Uploads \cup Confirms
    PROVE  Opened(l, r) \in Inodes /\ Opened(l, r) # {}
BY DEF Typed, Opened, Inodes

LEMMA OpenQuotaKeeps ==
    ASSUME ImportInv, NEW u \in Uploads, OpenQuota(u)
    PROVE  ImportInv'
<1>0. Opened("quota", u) \in Inodes /\ Opened("quota", u) # {}
    BY OpenedInode DEF ImportInv, Locks
<1>a. litter \subseteq litter' /\ slipped \subseteq slipped'
    BY DEF ImportInv, OpenQuota, Records
<1>1. Typed'
    <2>1. upload'[u] \in UploadType
        <3>1. upload[u] \in UploadType BY DEF ImportInv, Typed
        <3>2. upload'[u] = [upload[u] EXCEPT !.pc = "waiting", !.handle = Opened("quota", u)]
            BY DEF ImportInv, Typed, OpenQuota
        <3>3. "waiting" \in UploadPcs BY DEF UploadPcs
        <3> QED BY <1>0, <3>1, <3>2, <3>3 DEF UploadType
    <2>2. upload' \in [Uploads -> UploadType]
        BY <2>1 DEF ImportInv, OpenQuota, Records, Typed
    <2>3. /\ files' \in [Uploads -> SUBSET {"partial", "meta"}]
          /\ bytes' \in [Uploads -> {{}} \cup {{x} : x \in Digests}]
        BY <1>0 DEF ImportInv, OpenQuota, Records, Typed
    <2>4. /\ named' \in [Locks -> Inodes] /\ oldLocks' \in SUBSET Locks
          /\ \A l \in oldLocks' : named'[l] # {}
        BY <1>0 DEF ImportInv, OpenQuota, Records, Typed, Locks, Inodes
    <2>5. confirm' = confirm /\ packages' = packages /\ json' = json
          /\ slipped' \in SUBSET {"lock", "scan", "read"} /\ litter' \in SUBSET Uploads
        BY <1>0 DEF ImportInv, OpenQuota, Records, Typed
    <2> QED BY <2>2, <2>3, <2>4, <2>5 DEF ImportInv, Typed
<1>2. \A v \in Uploads : v # u =>
        upload'[v] = upload[v] /\ files'[v] = files[v] /\ bytes'[v] = bytes[v]
    BY DEF ImportInv, OpenQuota, Records, Typed
<1>3. \A v \in Uploads : Staged(v)'
    <2>1. Staged(u)'
        BY <1>0 DEF ImportInv, Staged, OpenQuota, Records, Typed, UploadType, UploadPcs, UploadDone, Inodes, Locks, Digests
    <2> QED BY <1>a, <1>2, <2>1 DEF ImportInv, Staged
<1>4. PreviewsKept
    BY DEF ImportInv, PreviewsKept, OpenQuota, Records, Typed, UploadType
<1>5. QuotaKept'
    <2> SUFFICES ASSUME slipped' = {} PROVE QuotaKept' BY DEF QuotaKept
    <2>1. slipped = {} BY DEF OpenQuota
    <2>2. /\ \A v \in Uploads : upload[v].handle # {} => upload[v].handle = named["quota"]
          /\ \A v, w \in Counting : v = w
          /\ Cardinality(Pending) <= MaxPending /\ PendingBytes <= MaxPendingBytes
          /\ \A v \in Counting : RoomFor(v)
        BY <2>1 DEF ImportInv, QuotaKept
    <2>3. Counting' = Counting
        BY <1>2 DEF ImportInv, Counting, OpenQuota, Typed, UploadType
    <2>4. Pending' = Pending /\ Counted' = Counted
        <3>1. Pending' = Pending BY DEF Pending, OpenQuota
        <3> QED BY <3>1 DEF Counted, OpenQuota
    <2>5. PendingBytes' = PendingBytes BY <2>4, PendingSum
    <2>6. \A v \in Counting : v # u BY DEF OpenQuota, Counting
    <2>7. \A v \in Counting' : RoomFor(v)'
        <3> SUFFICES ASSUME NEW v \in Counting PROVE RoomFor(v)' BY <2>3
        <3>1. v \in Uploads /\ RoomFor(v) BY <2>2 DEF Counting
        <3>2. upload'[v] = upload[v] BY <1>2, <2>6, <3>1
        <3> QED BY <2>4, <2>5, <3>1, <3>2 DEF RoomFor
    <2>8. \A v \in Uploads : upload'[v].handle # {} => upload'[v].handle = named'["quota"]
        <3>1. upload'[u].handle = Opened("quota", u) /\ named'["quota"] = Opened("quota", u)
            BY DEF ImportInv, OpenQuota, Typed, UploadType, Locks
        <3>2. ASSUME NEW v \in Uploads, v # u, upload[v].handle # {}
              PROVE  upload[v].handle = Opened("quota", u)
            BY <2>2, <3>2 DEF Opened
        <3> QED BY <1>2, <3>1, <3>2
    <2> QED BY <2>2, <2>3, <2>4, <2>5, <2>7, <2>8 DEF QuotaKept
<1>6. \A v \in Uploads : named'[v] # {} => named[v] # {}
    BY ImportAssumption DEF ImportInv, OpenQuota, Records, Typed, Locks
<1>7. \A v \in Uploads :
        upload'[v].pc = "previewed" /\ bytes'[v] = {} /\ ~upload'[v].old =>
            /\ upload[v].pc = "previewed" /\ bytes[v] = {} /\ ~upload[v].old
            /\ upload'[v].digest = upload[v].digest
    BY DEF ImportInv, Staged, OpenQuota, Records, Typed, UploadType
<1>8. UNCHANGED <<confirm, packages, json, jsonFiles>>
    BY DEF OpenQuota, Records
<1> QED BY <1>a, <1>1, <1>3, <1>4, <1>5, <1>6, <1>7, <1>8, UploadFrame


Purged(u) ==
    /\ bytes[u] # {} /\ upload[u].old
    /\ Cleared(u)
    /\ UNCHANGED <<upload, confirm, slipped, Records>>

LEMMA PurgedKeeps ==
    ASSUME ImportInv, NEW u \in Uploads, Purged(u)
    PROVE  ImportInv'
<1>a. litter \subseteq litter' /\ slipped \subseteq slipped'
    BY DEF ImportInv, Purged, Cleared, Records
<1>1. Typed'
    <2>1. upload'[u] \in UploadType
        BY DEF ImportInv, Typed, Purged
    <2>2. upload' \in [Uploads -> UploadType]
        BY <2>1 DEF ImportInv, Purged, Cleared, Records, Typed
    <2>3. /\ files' \in [Uploads -> SUBSET {"partial", "meta"}]
          /\ bytes' \in [Uploads -> {{}} \cup {{x} : x \in Digests}]
        BY DEF ImportInv, Purged, Cleared, Records, Typed
    <2>4. /\ named' \in [Locks -> Inodes] /\ oldLocks' \in SUBSET Locks
          /\ \A l \in oldLocks' : named'[l] # {}
        BY DEF ImportInv, Purged, Cleared, Records, Typed, Locks, Inodes
    <2>5. confirm' = confirm /\ packages' = packages /\ json' = json
          /\ slipped' \in SUBSET {"lock", "scan", "read"} /\ litter' \in SUBSET Uploads
        BY DEF ImportInv, Purged, Cleared, Records, Typed
    <2> QED BY <2>2, <2>3, <2>4, <2>5 DEF ImportInv, Typed
<1>2. \A v \in Uploads : v # u =>
        upload'[v] = upload[v] /\ files'[v] = files[v] /\ bytes'[v] = bytes[v]
    BY DEF ImportInv, Purged, Cleared, Records, Typed
<1>3. \A v \in Uploads : Staged(v)'
    <2>1. Staged(u)'
        <3>1. /\ bytes'[u] \in {bytes[u], {}} /\ files'[u] \in {files[u], files[u] \ {"meta"}}
              /\ u \in litter' \/ (bytes'[u] = {} /\ files'[u] = files[u] \ {"meta"})
            BY DEF ImportInv, Typed, Cleared, Purged
        <3>2. upload'[u] = upload[u] /\ upload[u].old
            BY DEF ImportInv, Typed, UploadType, Purged
        <3>3. Staged(u) BY DEF ImportInv
        <3> QED BY <1>a, <3>1, <3>2, <3>3 DEF Staged, UploadDone
    <2> QED BY <1>a, <1>2, <2>1 DEF ImportInv, Staged
<1>4. PreviewsKept
    BY DEF ImportInv, PreviewsKept, Purged, Cleared, Records, Typed, UploadType
<1>5. QuotaKept'
    <2>1. \A v \in Pending' : v \in Pending /\ Counted'[v] <= Counted[v]
        <3>1. \A v \in Uploads : bytes'[v] # {} /\ "meta" \in files'[v] =>
                bytes'[v] = bytes[v] /\ "meta" \in files[v]
            BY DEF ImportInv, Staged, Purged, Cleared, Records, Typed
        <3> QED BY <1>1, <3>1, PendingShrinks DEF ImportInv
    <2>2. \A v \in Uploads : upload'[v].handle \in {upload[v].handle, {}}
        BY DEF ImportInv, Staged, Purged, Cleared, Records, Typed, UploadType
    <2>3. \A v \in Counting' : v \in Counting /\ upload'[v].digest = upload[v].digest
        BY DEF ImportInv, Counting, Purged, Cleared, Records, Typed, UploadType
    <2>4. named'["quota"] = named["quota"] /\ slipped \subseteq slipped'
        BY <1>a, ImportAssumption DEF ImportInv, Purged, Cleared, Records, Typed, Locks
    <2> QED BY <1>1, <2>1, <2>2, <2>3, <2>4, QuotaFrame DEF ImportInv
<1>6. \A v \in Uploads : named'[v] # {} => named[v] # {}
    BY ImportAssumption DEF ImportInv, Purged, Cleared, Records, Typed, Locks
<1>7. \A v \in Uploads :
        upload'[v].pc = "previewed" /\ bytes'[v] = {} /\ ~upload'[v].old =>
            /\ upload[v].pc = "previewed" /\ bytes[v] = {} /\ ~upload[v].old
            /\ upload'[v].digest = upload[v].digest
    BY DEF ImportInv, Staged, Purged, Cleared, Records, Typed, UploadType
<1>8. UNCHANGED <<confirm, packages, json, jsonFiles>>
    BY DEF Purged, Cleared, Records
<1> QED BY <1>a, <1>1, <1>3, <1>4, <1>5, <1>6, <1>7, <1>8, UploadFrame


LEMMA PurgeStagedKeeps ==
    ASSUME ImportInv, NEW u \in Uploads, PurgeStaged(u)
    PROVE  ImportInv'
BY PurgedKeeps, CleanUpClears DEF PurgeStaged, Purged

Overwritten(u, digest) ==
    /\ \E d \in bytes[u] : d # digest /\ Contents[d].bytes = Contents[digest].bytes
    /\ bytes' = [bytes EXCEPT ![u] = {digest}]
    /\ UNCHANGED <<upload, confirm, files, Locking, Records>>

LEMMA OverwrittenKeeps ==
    ASSUME ImportInv, NEW u \in Uploads, NEW digest \in Digests, Overwritten(u, digest)
    PROVE  ImportInv'
<1>a. litter \subseteq litter' /\ slipped \subseteq slipped'
    BY DEF ImportInv, Overwritten, Locking, Records
<1>1. Typed'
    <2>1. upload'[u] \in UploadType
        BY DEF ImportInv, Typed, Overwritten
    <2>2. upload' \in [Uploads -> UploadType]
        BY <2>1 DEF ImportInv, Overwritten, Locking, Records, Typed
    <2>3. /\ files' \in [Uploads -> SUBSET {"partial", "meta"}]
          /\ bytes' \in [Uploads -> {{}} \cup {{x} : x \in Digests}]
        BY DEF ImportInv, Overwritten, Locking, Records, Typed
    <2>4. /\ named' \in [Locks -> Inodes] /\ oldLocks' \in SUBSET Locks
          /\ \A l \in oldLocks' : named'[l] # {}
        BY DEF ImportInv, Overwritten, Locking, Records, Typed, Locks, Inodes
    <2>5. confirm' = confirm /\ packages' = packages /\ json' = json
          /\ slipped' \in SUBSET {"lock", "scan", "read"} /\ litter' \in SUBSET Uploads
        BY DEF ImportInv, Overwritten, Locking, Records, Typed
    <2> QED BY <2>2, <2>3, <2>4, <2>5 DEF ImportInv, Typed
<1>2. \A v \in Uploads : v # u =>
        upload'[v] = upload[v] /\ files'[v] = files[v] /\ bytes'[v] = bytes[v]
    BY DEF ImportInv, Overwritten, Locking, Records, Typed
<1>3. \A v \in Uploads : Staged(v)'
    <2>1. Staged(u)'
        BY DEF ImportInv, Staged, Overwritten, Locking, Records, Typed, UploadType, UploadPcs, UploadDone, Inodes, Locks, Digests
    <2> QED BY <1>a, <1>2, <2>1 DEF ImportInv, Staged
<1>4. PreviewsKept
    BY DEF ImportInv, PreviewsKept, Overwritten, Locking, Records, Typed, UploadType
<1>5. QuotaKept'
    <2>1. PICK d \in Digests : bytes[u] = {d} /\ Contents[d].bytes = Contents[digest].bytes
        BY DEF ImportInv, Overwritten, Typed
    <2>2. bytes'[u] = {digest} BY DEF ImportInv, Overwritten, Typed
    <2>3. \A v \in Pending' : v \in Pending /\ Counted'[v] <= Counted[v]
        <3>1. Pending' = Pending
            BY <1>2, <2>1, <2>2 DEF Pending, Overwritten
        <3>2. Counted \in [Uploads -> Nat] BY CountedTyped DEF ImportInv
        <3> SUFFICES ASSUME NEW v \in Pending PROVE Counted'[v] = Counted[v]
            BY <3>1, <3>2 DEF Pending
        <3>3. v \in Uploads /\ v \in Pending' BY <3>1 DEF Pending
        <3>4. /\ Counted[v] = Contents[CHOOSE e \in bytes[v] : TRUE].bytes
              /\ Counted'[v] = Contents[CHOOSE e \in bytes'[v] : TRUE].bytes
            BY <3>3 DEF Counted
        <3>5. CASE v # u
            <4>1. bytes'[v] = bytes[v] BY <1>2, <3>3, <3>5
            <4> QED BY <3>4, <4>1
        <3>6. CASE v = u
            <4>1. (CHOOSE e \in bytes[v] : TRUE) = d BY <2>1, <3>6
            <4>2. (CHOOSE e \in bytes'[v] : TRUE) = digest BY <2>2, <3>6
            <4> QED BY <2>1, <3>4, <4>1, <4>2
        <3> QED BY <3>5, <3>6
    <2>4. Counting' = Counting /\ upload' = upload /\ named' = named /\ slipped' = slipped
        BY DEF Overwritten, Counting, Locking
    <2> QED BY <1>1, <2>3, <2>4, QuotaFrame DEF ImportInv
<1>6. \A v \in Uploads : named'[v] # {} => named[v] # {}
    BY ImportAssumption DEF ImportInv, Overwritten, Locking, Records, Typed, Locks
<1>7. \A v \in Uploads :
        upload'[v].pc = "previewed" /\ bytes'[v] = {} /\ ~upload'[v].old =>
            /\ upload[v].pc = "previewed" /\ bytes[v] = {} /\ ~upload[v].old
            /\ upload'[v].digest = upload[v].digest
    <2>1. upload' = upload BY DEF Overwritten
    <2>2. \A v \in Uploads : bytes'[v] = {} => bytes[v] = {}
        BY DEF ImportInv, Typed, Overwritten
    <2> QED BY <2>1, <2>2
<1>8. UNCHANGED <<confirm, packages, json, jsonFiles>>
    BY DEF Overwritten, Locking, Records
<1> QED BY <1>a, <1>1, <1>3, <1>4, <1>5, <1>6, <1>7, <1>8, UploadFrame

LEMMA TamperKeeps ==
    ASSUME ImportInv, NEW u \in Uploads, Tamper(u)
    PROVE  ImportInv'
<1>1. PICK digest \in Digests : Overwritten(u, digest)
    BY DEF Tamper, Overwritten
<1> QED BY <1>1, OverwrittenKeeps

LEMMA PurgeLockKeeps ==
    ASSUME ImportInv, NEW l \in Locks, PurgeLock(l)
    PROVE  ImportInv'
<1>1. UNCHANGED <<upload, files, bytes, confirm, litter, packages, json, jsonFiles>>
    BY DEF PurgeLock, Records
<1>2. named' = [named EXCEPT ![l] = {}] /\ oldLocks' = oldLocks \ {l}
    BY DEF PurgeLock, Unlink
<1>3. slipped' \in SUBSET {"lock", "scan", "read"} /\ slipped \subseteq slipped'
    BY DEF ImportInv, Typed, PurgeLock
<1>4. Typed'
    BY <1>1, <1>2, <1>3 DEF ImportInv, Typed, Inodes
<1>5. PreviewsKept BY <1>1 DEF PreviewsKept
<1>6. \A v \in Uploads : Staged(v)' BY <1>1 DEF ImportInv, Staged
<1>7. QuotaKept'
    <2>1. Counting' = Counting /\ Pending' = Pending /\ Counted' = Counted
        <3>1. Pending' = Pending BY <1>1 DEF Pending
        <3> QED BY <1>1, <3>1 DEF Counting, Counted
    <2>2. PendingBytes' = PendingBytes BY <2>1, PendingSum
    <2>3. \A v \in Counting : RoomFor(v) => RoomFor(v)' BY <1>1, <2>1, <2>2 DEF RoomFor
    <2> SUFFICES ASSUME slipped' = {} PROVE QuotaKept' BY DEF QuotaKept
    <2>4. /\ slipped = {}
          /\ l = "quota" => \A v \in Uploads : upload[v].handle # named["quota"]
        BY DEF PurgeLock
    <2>5. /\ \A v \in Uploads : upload[v].handle # {} => upload[v].handle = named["quota"]
          /\ \A v, w \in Counting : v = w
          /\ Cardinality(Pending) <= MaxPending /\ PendingBytes <= MaxPendingBytes
          /\ \A v \in Counting : RoomFor(v)
        BY <2>4 DEF ImportInv, QuotaKept
    <2>6. \A v \in Uploads : upload'[v].handle # {} => upload'[v].handle = named'["quota"]
        BY <1>1, <1>2, <2>4, <2>5 DEF ImportInv, Typed, Locks
    <2> QED BY <2>1, <2>2, <2>3, <2>5, <2>6 DEF QuotaKept
<1>8. \A v \in Uploads : named'[v] # {} => named[v] # {}
    BY <1>2 DEF ImportInv, Typed, Locks
<1> QED BY <1>1, <1>4, <1>5, <1>6, <1>7, <1>8, UploadFrame

LEMMA ExpireLockKeeps ==
    ASSUME ImportInv, NEW l \in Locks, ExpireLock(l)
    PROVE  ImportInv'
<1>1. UNCHANGED <<upload, files, bytes, confirm, named, slipped, litter, packages, json, jsonFiles>>
    BY DEF ExpireLock, Records
<1>2. Typed'
    BY <1>1 DEF ImportInv, Typed, ExpireLock
<1>3. PreviewsKept BY <1>1 DEF PreviewsKept
<1>4. \A v \in Uploads : Staged(v)' BY <1>1 DEF ImportInv, Staged
<1>5. QuotaKept'
    <2>1. \A v \in Pending' : v \in Pending /\ Counted'[v] <= Counted[v]
        BY <1>1, <1>2, PendingShrinks DEF ImportInv
    <2>2. Counting' = Counting BY <1>1 DEF Counting
    <2> QED BY <1>1, <1>2, <2>1, <2>2, QuotaFrame DEF ImportInv
<1> QED BY <1>1, <1>2, <1>3, <1>4, <1>5, UploadFrame

\* Where a confirm has opened the lock of its upload and has not left it.
Within == {"claiming", "claimed", "importing", "inserting", "cleaning", "releasing",
           "unlinking", "crashed"}

\* A step of a confirm: uploads and records stand still, the staging directory
\* loses at most what the step says it does.
LEMMA ConfirmFrame ==
    ASSUME ImportInv, NEW c \in Confirms, Typed',
           UNCHANGED <<upload, slipped, packages, json, jsonFiles>>, litter \subseteq litter',
           named'["quota"] = named["quota"],
           \A d \in Confirms : d # c => confirm'[d] = confirm[d],
           \A v \in Uploads : bytes'[v] # {} /\ "meta" \in files'[v] =>
               bytes'[v] = bytes[v] /\ "meta" \in files[v],
           Carried(c)', \A v \in Uploads : Staged(v)' /\ ClaimNamed(v)',
           RowsApart', NoUploadIsLost'
    PROVE  ImportInv'
<1>1. PreviewsKept BY DEF PreviewsKept
<1>2. \A d \in Confirms : Carried(d)' BY <1>1, CarriedFrame DEF ImportInv
<1>3. QuotaKept'
    <2>1. \A v \in Pending' : v \in Pending /\ Counted'[v] <= Counted[v]
        BY PendingShrinks DEF ImportInv
    <2>2. Counting' = Counting BY DEF Counting
    <2> QED BY <2>1, <2>2, QuotaFrame DEF ImportInv
<1>4. ImportedAsPreviewed' BY <1>1, ShownFrame DEF ImportInv
<1>5. JsonFilesKept' BY DEF ImportInv, JsonFilesKept
<1> QED BY <1>2, <1>3, <1>4, <1>5 DEF ImportInv

\* Most steps of a confirm leave the staging directory alone, or leave more litter.
StagingKept ==
    /\ UNCHANGED <<files, bytes, named, oldLocks, slipped>>
    /\ litter \subseteq litter' /\ litter' \in SUBSET Uploads

LEMMA UnchangedIsKept ==
    ASSUME ImportInv, UNCHANGED Staging
    PROVE  StagingKept
BY DEF ImportInv, Typed, Staging, Locking, StagingKept

LEMMA ConfirmMoves ==
    ASSUME ImportInv, NEW c \in Confirms, confirm' = [confirm EXCEPT ![c] = confirm'[c]],
           UNCHANGED <<upload, packages, json, jsonFiles>>, StagingKept,
           confirm'[c] \in ConfirmType, Carried(c)',
           confirm[c].pc # "start" => confirm'[c].of = confirm[c].of,
           confirm[c].pc \in Within => confirm'[c].pc \in Within,
           confirm[c].result \in {"written", "rejected", "lost", "crashed"} =>
               confirm'[c].result \in {"written", "rejected", "lost", "crashed"},
           RowsApart'
    PROVE  ImportInv'
<1>1. /\ UNCHANGED <<upload, files, bytes, named, oldLocks, slipped, packages, json, jsonFiles>>
      /\ litter \subseteq litter' /\ litter' \in SUBSET Uploads
    BY DEF StagingKept
<1>2. \A d \in Confirms : d # c => confirm'[d] = confirm[d] BY DEF ImportInv, Typed
<1>3. Typed' BY <1>1 DEF ImportInv, Typed
<1>4. \A v \in Uploads : Staged(v)' BY <1>1 DEF ImportInv, Staged
<1>5. \A v \in Uploads : ClaimNamed(v)'
    <2>1. PreviewsKept BY <1>1 DEF PreviewsKept
    <2>2. confirm[c].pc \in Within => confirm[c].pc # "start" BY DEF Within
    <2> QED BY <1>1, <1>2, <2>1, <2>2, ClaimFrame DEF ImportInv, Within
<1>6. NoUploadIsLost'
    <2>1. \A u \in Uploads, d \in Confirms : Answers(d, u) => Answers(d, u)'
        <3>1. \A u \in Uploads : Answers(c, u) => Answers(c, u)'
            BY DEF ImportInv, Carried, Answers
        <3> QED BY <1>2, <3>1 DEF Answers
    <2> QED BY <1>1, <2>1, LostFrame DEF ImportInv
<1> QED BY <1>1, <1>2, <1>3, <1>4, <1>5, <1>6, ConfirmFrame

Addresses(c, u, code) ==
    /\ confirm[c].pc = "start"
    /\ upload[u].pc = "previewed"
    /\ confirm' = [confirm EXCEPT ![c] = [@ EXCEPT !.pc = "purging", !.of = u, !.code = code]]
    /\ UNCHANGED <<upload, Staging, Records, faults>>

LEMMA AddressesKeeps ==
    ASSUME ImportInv, NEW c \in Confirms, NEW u \in Uploads, NEW code \in Codes,
           Addresses(c, u, code)
    PROVE  ImportInv'
<1>1. /\ confirm' = [confirm EXCEPT ![c] = confirm'[c]]
      /\ UNCHANGED <<upload, Staging, packages, json, jsonFiles>>
    BY DEF ImportInv, Typed, Addresses, Records
<1>2. confirm'[c] \in ConfirmType
    <2>1. confirm[c] \in ConfirmType BY DEF ImportInv, Typed
    <2>2. confirm'[c] = [confirm[c] EXCEPT !.pc = "purging", !.of = u, !.code = code]
        BY DEF ImportInv, Typed, Addresses
    <2>3. "purging" \in ConfirmPcs BY DEF ConfirmPcs
    <2> QED BY <2>1, <2>2, <2>3 DEF ConfirmType
<1>3. Carried(c)'
    BY <1>1 DEF ImportInv, Typed, ConfirmType, Carried, Addresses
<1>4. /\ confirm[c].result = "none" /\ confirm'[c].result = "none"
      /\ confirm[c].pc \notin Within /\ confirm[c].pc = "start"
    BY DEF ImportInv, Typed, ConfirmType, Carried, Addresses, Within
<1>5. RowsApart'
    <2>1. packages' = packages BY <1>1
    <2>2. \A w \in Writers' : w \in Writers /\ confirm'[w].row = confirm[w].row
        BY <1>1, <1>4 DEF ImportInv, Typed, Writers
    <2> QED BY <2>1, <2>2, RowsFrame DEF ImportInv
<1> QED BY <1>1, <1>2, <1>3, <1>4, <1>5, UnchangedIsKept, ConfirmMoves

LEMMA BeginConfirmKeeps ==
    ASSUME ImportInv, NEW c \in Confirms, BeginConfirm(c)
    PROVE  ImportInv'
<1>1. PICK u \in Uploads, code \in Codes : Addresses(c, u, code)
    BY DEF BeginConfirm, Addresses
<1> QED BY <1>1, AddressesKeeps

\* A confirm takes one step further and carries what it carried.
Moves(c, pc, result) ==
    /\ confirm' = [confirm EXCEPT ![c] = confirm'[c]]
    /\ confirm'[c] \in ConfirmType
    /\ confirm'[c].pc = pc /\ confirm'[c].result = result
    /\ confirm'[c].of = confirm[c].of /\ confirm'[c].code = confirm[c].code
    /\ confirm'[c].handle = confirm[c].handle
    /\ confirm'[c].snapshot = confirm[c].snapshot /\ confirm'[c].row = confirm[c].row

LEMMA MoveIs ==
    ASSUME Typed, NEW c \in Confirms, NEW pc \in ConfirmPcs, MoveConfirm(c, pc)
    PROVE  Moves(c, pc, confirm[c].result)
<1>1. confirm[c] \in ConfirmType BY DEF Typed
<1>2. confirm' = [confirm EXCEPT ![c] = [confirm[c] EXCEPT !.pc = pc]]
    BY DEF Typed, MoveConfirm
<1>3. confirm'[c] = [confirm[c] EXCEPT !.pc = pc] BY <1>2 DEF Typed
<1>4. [confirm[c] EXCEPT !.pc = pc] \in ConfirmType BY <1>1 DEF ConfirmType
<1> QED BY <1>1, <1>2, <1>3, <1>4 DEF Moves, ConfirmType

LEMMA RefuseIs ==
    ASSUME Typed, NEW c \in Confirms, NEW pc \in ConfirmPcs, NEW result \in Results,
           Refuse(c, pc, result)
    PROVE  Moves(c, pc, result)
<1>1. confirm[c] \in ConfirmType BY DEF Typed
<1>2. confirm' = [confirm EXCEPT ![c] = [confirm[c] EXCEPT !.pc = pc, !.result = result]]
    BY DEF Typed, Refuse
<1>3. confirm'[c] = [confirm[c] EXCEPT !.pc = pc, !.result = result] BY <1>2 DEF Typed
<1>4. [confirm[c] EXCEPT !.pc = pc, !.result = result] \in ConfirmType BY <1>1 DEF ConfirmType
<1>5. /\ confirm'[c].pc = pc /\ confirm'[c].result = result
      /\ confirm'[c].of = confirm[c].of /\ confirm'[c].code = confirm[c].code
      /\ confirm'[c].handle = confirm[c].handle
      /\ confirm'[c].snapshot = confirm[c].snapshot /\ confirm'[c].row = confirm[c].row
    BY <1>1, <1>3 DEF ConfirmType
<1>6. confirm' = [confirm EXCEPT ![c] = confirm'[c]] BY <1>2, <1>3
<1> QED BY <1>3, <1>4, <1>5, <1>6 DEF Moves

LEMMA MovesKeep ==
    ASSUME ImportInv, NEW c \in Confirms, NEW pc, NEW result, Moves(c, pc, result),
           UNCHANGED <<upload, Staging, packages, json, jsonFiles>>, Carried(c)',
           confirm[c].pc \in Within => pc \in Within,
           confirm[c].result \in {"written", "rejected", "lost", "crashed"} => result = confirm[c].result,
           result = "written" => confirm[c].result = "written"
    PROVE  ImportInv'
<1>1. RowsApart'
    <2>1. packages' = packages OBVIOUS
    <2>2. \A w \in Writers' : w \in Writers /\ confirm'[w].row = confirm[w].row
        BY DEF ImportInv, Typed, Writers, Moves
    <2> QED BY <2>1, <2>2, RowsFrame DEF ImportInv
<1> QED BY <1>1, UnchangedIsKept, ConfirmMoves DEF Moves

LEMMA VerifyTokenKeeps ==
    ASSUME ImportInv, NEW c \in Confirms, VerifyToken(c)
    PROVE  ImportInv'
<1>1. UNCHANGED <<upload, Staging, packages, json, jsonFiles>> BY DEF VerifyToken, Records
<1>2. confirm[c].pc = "purging" /\ confirm[c].result = "none" /\ confirm[c].pc \notin Within
    BY DEF ImportInv, Carried, VerifyToken, Within
<1>3. CASE confirm[c].code = upload[confirm[c].of].code /\ MoveConfirm(c, "opening")
    <2>1. Moves(c, "opening", "none")
        BY <1>2, <1>3, MoveIs DEF ImportInv, ConfirmPcs
    <2>2. Carried(c)' BY <1>1, <1>2, <1>3, <2>1 DEF ImportInv, Carried, Moves, Shown, Packaged, Staging, Locking
    <2> QED BY <1>1, <1>2, <2>1, <2>2, MovesKeep
<1>4. CASE Refuse(c, "done", "token")
    <2>1. Moves(c, "done", "token")
        BY <1>4, RefuseIs DEF ImportInv, ConfirmPcs, ConfirmDone, Results
    <2>2. Carried(c)' BY <1>1, <1>2, <2>1 DEF ImportInv, Carried, Moves, Shown, Packaged, Staging, Locking
    <2> QED BY <1>1, <1>2, <2>1, <2>2, MovesKeep
<1> QED BY <1>3, <1>4 DEF VerifyToken

LEMMA ClaimKeeps ==
    ASSUME ImportInv, NEW c \in Confirms, Claim(c)
    PROVE  ImportInv'
<1>1. UNCHANGED <<upload, Staging, packages, json, jsonFiles>> BY DEF Claim, Records
<1>2. confirm[c].pc = "claiming" /\ confirm[c].result = "none" /\ confirm[c].pc \in Within
    BY DEF ImportInv, Carried, Claim, Within
<1>3. CASE Holders(confirm[c].handle) # {}
    <2>1. confirm[c] \in ConfirmType BY DEF ImportInv, Typed
    <2>2. confirm' = [confirm EXCEPT ![c] = [confirm[c] EXCEPT !.pc = "unlinking", !.handle = {},
                                                              !.result = "in_progress"]]
        BY <1>3 DEF ImportInv, Typed, Claim
    <2>3. confirm'[c] = [confirm[c] EXCEPT !.pc = "unlinking", !.handle = {},
                                          !.result = "in_progress"]
        BY <2>2 DEF ImportInv, Typed
    <2>4. confirm'[c] \in ConfirmType
        BY <2>1, <2>3 DEF ConfirmType, ConfirmPcs, Results, Inodes
    <2>5. Carried(c)'
        BY <1>1, <1>2, <2>1, <2>3 DEF ImportInv, Carried, ConfirmType, Shown, Packaged, Staging, Locking
    <2>6. confirm'[c].of = confirm[c].of /\ confirm'[c].pc \in Within /\ confirm'[c].result # "written"
        BY <2>1, <2>3 DEF ConfirmType, Within
    <2>7. RowsApart'
        <3>1. \A w \in Writers' : w \in Writers /\ confirm'[w].row = confirm[w].row
            BY <2>2, <2>6 DEF ImportInv, Typed, Writers
        <3> QED BY <1>1, <3>1, RowsFrame DEF ImportInv
    <2>8. confirm' = [confirm EXCEPT ![c] = confirm'[c]] BY <2>2, <2>3
    <2> QED BY <1>1, <1>2, <2>4, <2>5, <2>6, <2>7, <2>8, UnchangedIsKept, ConfirmMoves
<1>4. CASE Refuse(c, "releasing", "already_completed")
    <2>1. Moves(c, "releasing", "already_completed")
        BY <1>4, RefuseIs DEF ImportInv, ConfirmPcs, Results
    <2>2. Carried(c)' BY <1>1, <1>2, <2>1 DEF ImportInv, Carried, Moves, Shown, Packaged, Staging, Locking
    <2> QED BY <1>1, <1>2, <2>1, <2>2, MovesKeep DEF Within
<1>5. CASE MoveConfirm(c, "claimed")
    <2>1. Moves(c, "claimed", "none")
        BY <1>2, <1>5, MoveIs DEF ImportInv, ConfirmPcs
    <2>2. Carried(c)' BY <1>1, <1>2, <2>1 DEF ImportInv, Carried, Moves, Shown, Packaged, Staging, Locking
    <2> QED BY <1>1, <1>2, <2>1, <2>2, MovesKeep DEF Within
<1> QED BY <1>3, <1>4, <1>5 DEF Claim

LEMMA BecomesKeepsLitter ==
    ASSUME ImportInv, NEW c \in Confirms, NEW r \in ConfirmType,
           confirm' = [confirm EXCEPT ![c] = r],
           UNCHANGED <<upload, packages, json, jsonFiles>>, StagingKept, Carried(c)', r.of = confirm[c].of,
           confirm[c].pc \in Within => r.pc \in Within,
           confirm[c].result \in {"written", "rejected", "lost", "crashed"} =>
               r.result \in {"written", "rejected", "lost", "crashed"},
           r.result = "written" => confirm[c].result = "written" /\ r.row = confirm[c].row
    PROVE  ImportInv'
<1>1. confirm'[c] = r BY DEF ImportInv, Typed
<1>2. RowsApart'
    <2>1. \A w \in Writers' : w \in Writers /\ confirm'[w].row = confirm[w].row
        BY <1>1 DEF ImportInv, Typed, Writers
    <2> QED BY <2>1, RowsFrame DEF ImportInv
<1> QED BY <1>1, <1>2, ConfirmMoves

LEMMA BecomesKeeps ==
    ASSUME ImportInv, NEW c \in Confirms, NEW r \in ConfirmType,
           confirm' = [confirm EXCEPT ![c] = r],
           UNCHANGED <<upload, Staging, packages, json, jsonFiles>>, Carried(c)', r.of = confirm[c].of,
           confirm[c].pc \in Within => r.pc \in Within,
           confirm[c].result \in {"written", "rejected", "lost", "crashed"} =>
               r.result \in {"written", "rejected", "lost", "crashed"},
           r.result = "written" => confirm[c].result = "written" /\ r.row = confirm[c].row
    PROVE  ImportInv'
BY UnchangedIsKept, BecomesKeepsLitter

LEMMA TakeSnapshotKeeps ==
    ASSUME ImportInv, NEW c \in Confirms, TakeSnapshot(c)
    PROVE  ImportInv'
<1>1. UNCHANGED <<upload, Staging, packages, json, jsonFiles>> BY DEF TakeSnapshot, Records
<1>2. confirm[c].pc = "claimed" /\ confirm[c].result = "none" /\ confirm[c].of \in Uploads
    BY DEF ImportInv, Carried, TakeSnapshot
<1>3. CASE Matches(c)
    <2>1. PICK r : r = [confirm[c] EXCEPT !.pc = "importing", !.snapshot = bytes[confirm[c].of]]
        OBVIOUS
    <2>2. confirm' = [confirm EXCEPT ![c] = r] BY <1>3, <2>1 DEF ImportInv, Typed, TakeSnapshot
    <2>3. bytes[confirm[c].of] \in SUBSET Digests BY <1>2 DEF ImportInv, Typed
    <2>4. confirm[c] \in ConfirmType BY DEF ImportInv, Typed
    <2>5. r \in ConfirmType BY <2>1, <2>3, <2>4 DEF ConfirmType, ConfirmPcs
    <2>6. confirm'[c] = r BY <2>2 DEF ImportInv, Typed
    <2>7. /\ r.pc = "importing" /\ r.result = "none" /\ r.of = confirm[c].of
          /\ r.code = confirm[c].code /\ r.handle = confirm[c].handle /\ r.row = confirm[c].row
          /\ r.snapshot = {upload[confirm[c].of].digest}
        BY <1>2, <1>3, <2>1, <2>4 DEF ConfirmType, Matches
    <2>8. Carried(c)' BY <1>1, <1>2, <2>6, <2>7 DEF ImportInv, Carried, Shown, Packaged
    <2> QED BY <1>1, <1>2, <2>2, <2>5, <2>7, <2>8, BecomesKeeps DEF Within
<1>4. CASE Refuse(c, "releasing", "mismatch")
    <2>1. Moves(c, "releasing", "mismatch")
        BY <1>4, RefuseIs DEF ImportInv, ConfirmPcs, Results
    <2>2. Carried(c)' BY <1>1, <1>2, <2>1 DEF ImportInv, Carried, Moves, Shown, Packaged
    <2> QED BY <1>1, <1>2, <2>1, <2>2, MovesKeep DEF Within
<1> QED BY <1>3, <1>4 DEF TakeSnapshot

LEMMA SnapshotFailsKeeps ==
    ASSUME ImportInv, NEW c \in Confirms, SnapshotFails(c)
    PROVE  ImportInv'
<1>1. UNCHANGED <<upload, Staging, packages, json, jsonFiles>> BY DEF SnapshotFails, Records
<1>2. confirm[c].pc = "claimed" /\ confirm[c].result = "none" /\ confirm[c].of \in Uploads
    BY DEF ImportInv, Carried, SnapshotFails
<1>3. Matches(c) BY DEF SnapshotFails
<1>4. PICK r : r = [confirm[c] EXCEPT !.pc = "releasing", !.result = "unwritten",
                                    !.snapshot = bytes[confirm[c].of]]
    OBVIOUS
<1>5. confirm' = [confirm EXCEPT ![c] = r] BY <1>4 DEF ImportInv, Typed, SnapshotFails
<1>6. bytes[confirm[c].of] \in SUBSET Digests BY <1>2 DEF ImportInv, Typed
<1>7. confirm[c] \in ConfirmType BY DEF ImportInv, Typed
<1>8. r \in ConfirmType BY <1>4, <1>6, <1>7 DEF ConfirmType, ConfirmPcs, Results
<1>9. confirm'[c] = r BY <1>5 DEF ImportInv, Typed
<1>10. /\ r.pc = "releasing" /\ r.result = "unwritten" /\ r.of = confirm[c].of
       /\ r.code = confirm[c].code /\ r.handle = confirm[c].handle /\ r.row = confirm[c].row
       /\ r.snapshot = {upload[confirm[c].of].digest}
    BY <1>2, <1>3, <1>4, <1>7 DEF ConfirmType, Matches
<1>11. Carried(c)' BY <1>1, <1>2, <1>9, <1>10 DEF ImportInv, Carried, Shown, Packaged
<1> QED BY <1>1, <1>2, <1>5, <1>8, <1>10, <1>11, BecomesKeeps DEF Within

\* What a request reads out of a file is a row the database can hold.
LEMMA RowTyped ==
    ASSUME NEW code \in Codes, NEW digest \in Digests
    PROVE  /\ RowOf(code, digest) \in RowType
           /\ RowOf(code, digest).digest = digest /\ RowOf(code, digest).code = code
           /\ RowOf(code, digest).source = "gpkg"
           /\ RowOf(code, digest).objects = Objects[digest]
<1>1. Objects[digest] \in SUBSET UNION ({Objects[d] : d \in Digests}
                                        \cup {JsonRow[d].objects : d \in DOMAIN JsonFiles})
    OBVIOUS
<1> HIDE DEF Objects, JsonRow
<1> QED BY <1>1 DEF RowOf, RowType

LEMMA LookUpKeeps ==
    ASSUME ImportInv, NEW c \in Confirms, LookUp(c)
    PROVE  ImportInv'
<1>1. UNCHANGED <<upload, Staging, packages, json, jsonFiles>> BY DEF LookUp, Records
<1>2. PICK d \in confirm[c].snapshot :
        /\ confirm[c].pc = "importing"
        /\ \/ Known(RowOf(confirm[c].code, d)) # {} /\ MoveConfirm(c, "inserting")
           \/ Refuse(c, "releasing", "conflict")
           \/ confirm' = [confirm EXCEPT ![c] = [@ EXCEPT !.pc = "inserting",
                                                        !.row = {RowOf(confirm[c].code, d)}]]
    BY DEF LookUp
<1>3. confirm[c].result = "none" /\ confirm[c].code = upload[confirm[c].of].code
    BY <1>2 DEF ImportInv, Carried
<1>4. d = upload[confirm[c].of].digest /\ d \in Digests /\ confirm[c].code \in Codes
    BY <1>2 DEF ImportInv, Carried, Typed, ConfirmType
<1>5. CASE Known(RowOf(confirm[c].code, d)) # {} /\ MoveConfirm(c, "inserting")
    <2>1. Moves(c, "inserting", "none")
        BY <1>3, <1>5, MoveIs DEF ImportInv, ConfirmPcs
    <2>2. Packaged(d) BY <1>4, <1>5, RowTyped DEF Known, Packaged
    <2>3. Carried(c)'
        BY <1>1, <1>2, <1>3, <1>4, <2>1, <2>2 DEF ImportInv, Carried, Moves, Shown, Packaged
    <2> QED BY <1>1, <1>2, <1>3, <2>1, <2>3, MovesKeep DEF Within
<1>6. CASE Refuse(c, "releasing", "conflict")
    <2>1. Moves(c, "releasing", "conflict")
        BY <1>6, RefuseIs DEF ImportInv, ConfirmPcs, Results
    <2>2. Carried(c)' BY <1>1, <1>2, <1>3, <2>1 DEF ImportInv, Carried, Moves, Shown, Packaged
    <2> QED BY <1>1, <1>2, <1>3, <2>1, <2>2, MovesKeep DEF Within
<1>7. CASE confirm' = [confirm EXCEPT ![c] = [@ EXCEPT !.pc = "inserting",
                                                     !.row = {RowOf(confirm[c].code, d)}]]
    <2>1. PICK row \in RowType : row = RowOf(confirm[c].code, d) BY <1>4, RowTyped
    <2>2. PICK r : r = [confirm[c] EXCEPT !.pc = "inserting", !.row = {row}] OBVIOUS
    <2>3. confirm' = [confirm EXCEPT ![c] = r]
        BY <1>7, <2>1, <2>2 DEF ImportInv, Typed
    <2>4. confirm[c] \in ConfirmType BY DEF ImportInv, Typed
    <2>5. r \in ConfirmType BY <2>2, <2>4 DEF ConfirmType, ConfirmPcs
    <2>6. confirm'[c] = r BY <2>3 DEF ImportInv, Typed
    <2>7. /\ r.pc = "inserting" /\ r.result = "none" /\ r.of = confirm[c].of
          /\ r.code = confirm[c].code /\ r.handle = confirm[c].handle /\ r.row = {row}
          /\ r.snapshot = confirm[c].snapshot
        BY <1>3, <2>2, <2>4 DEF ConfirmType
    <2>8. row = Shown(c) BY <1>3, <1>4, <2>1 DEF Shown
    <2>9. Shown(c)' = Shown(c) BY <1>1, <2>6, <2>7 DEF Shown, RowOf
    <2>10. Carried(c)'
        BY <1>1, <1>2, <2>6, <2>7, <2>8, <2>9 DEF ImportInv, Carried, Packaged
    <2> QED BY <1>1, <1>2, <1>3, <2>3, <2>5, <2>7, <2>10, BecomesKeeps DEF Within
<1> QED BY <1>2, <1>5, <1>6, <1>7

LEMMA InsertKeeps ==
    ASSUME ImportInv, NEW c \in Confirms, Insert(c)
    PROVE  ImportInv'
<1>1. UNCHANGED <<upload, Staging, packages, json, jsonFiles>> BY DEF Insert, Records
<1>2. confirm[c].pc = "inserting" /\ confirm[c].result = "none"
    BY DEF ImportInv, Carried, Insert
<1>3. CASE Collides(confirm[c].row)
    <2>1. PICK r : r = [confirm[c] EXCEPT !.pc = "releasing", !.row = {}, !.result = "conflict"]
        OBVIOUS
    <2>2. confirm' = [confirm EXCEPT ![c] = r] BY <1>3, <2>1 DEF ImportInv, Typed, Insert
    <2>3. confirm[c] \in ConfirmType BY DEF ImportInv, Typed
    <2>4. r \in ConfirmType BY <2>1, <2>3 DEF ConfirmType, ConfirmPcs, Results
    <2>5. confirm'[c] = r BY <2>2 DEF ImportInv, Typed
    <2>6. /\ r.pc = "releasing" /\ r.result = "conflict" /\ r.of = confirm[c].of
          /\ r.code = confirm[c].code /\ r.handle = confirm[c].handle /\ r.row = {}
          /\ r.snapshot = confirm[c].snapshot
        BY <2>1, <2>3 DEF ConfirmType
    <2>7. Carried(c)' BY <1>1, <1>2, <2>5, <2>6 DEF ImportInv, Carried, Shown, Packaged
    <2> QED BY <1>1, <1>2, <2>2, <2>4, <2>6, <2>7, BecomesKeeps DEF Within
<1>4. CASE ~Collides(confirm[c].row) /\ Refuse(c, "cleaning", "written")
    <2>1. Moves(c, "cleaning", "written")
        BY <1>4, RefuseIs DEF ImportInv, ConfirmPcs, Results
    <2>2. Carried(c)' BY <1>1, <1>2, <2>1 DEF ImportInv, Carried, Moves, Shown, Packaged
    <2>3. RowsApart'
        <3>1. /\ confirm'[c].row = confirm[c].row /\ c \notin Writers
              /\ \A d \in Confirms : d # c => confirm'[d] = confirm[d]
            BY <1>2, <2>1 DEF ImportInv, Typed, Moves, Writers
        <3>2. Writers' \subseteq Writers \cup {c} BY <3>1 DEF Writers
        <3>3. \A w \in Writers' : confirm'[w].row = confirm[w].row BY <3>1, <3>2 DEF Writers
        <3>4. \A w \in Writers : \A p \in confirm[w].row, q \in confirm[c].row :
                ~Collide(p, q) /\ ~Collide(q, p)
            BY DEF Insert, MayWrite, Collide
        <3>5. \A w \in Writers' : ~Collides(confirm[w].row)
            BY <1>4, <3>2 DEF ImportInv, RowsApart
        <3>6. \A v, w \in Writers' : v # w =>
                \A p \in confirm[v].row, q \in confirm[w].row : ~Collide(p, q)
            BY <3>2, <3>4 DEF ImportInv, RowsApart
        <3>7. packages' = packages BY <1>1
        <3> QED BY <3>3, <3>5, <3>6, <3>7 DEF ImportInv, RowsApart, Collides
    <2> QED BY <1>1, <1>2, <2>1, <2>2, <2>3, UnchangedIsKept, ConfirmMoves DEF Moves, Within
<1> QED BY <1>3, <1>4 DEF Insert

LEMMA ReleaseKeeps ==
    ASSUME ImportInv, NEW c \in Confirms, Release(c)
    PROVE  ImportInv'
<1>1. /\ UNCHANGED <<upload, files, bytes, named, oldLocks, slipped, packages, json, jsonFiles>>
      /\ litter' = litter \/ litter' = litter \cup {confirm[c].of}
    BY DEF Release, LeavesLitter, Records
<1>2. confirm[c].pc = "releasing" /\ confirm[c].of \in Uploads
    BY DEF ImportInv, Carried, Release
<1>3. PICK kept \in SUBSET confirm[c].snapshot :
        /\ Leaving(c, kept)
        /\ kept # {} => confirm[c].result = "unwritten" \/ confirm[c].of \in litter'
    BY DEF Release, LeavesLitter
<1>4. PICK r : r = [confirm[c] EXCEPT !.pc = "unlinking", !.handle = {}, !.snapshot = kept] OBVIOUS
<1>5. confirm' = [confirm EXCEPT ![c] = r] BY <1>3, <1>4 DEF ImportInv, Typed, Leaving
<1>6. confirm[c] \in ConfirmType BY DEF ImportInv, Typed
<1>7. r \in ConfirmType BY <1>4, <1>6 DEF ConfirmType, ConfirmPcs, ConfirmDone, Results, Inodes
<1>8. confirm'[c] = r BY <1>5 DEF ImportInv, Typed
<1>9. /\ r.pc = "unlinking" /\ r.result = confirm[c].result /\ r.of = confirm[c].of
      /\ r.code = confirm[c].code /\ r.handle = {} /\ r.row = confirm[c].row
      /\ r.snapshot = kept
    BY <1>4, <1>6 DEF ConfirmType
<1>10. Carried(c)'
    BY <1>1, <1>2, <1>3, <1>8, <1>9 DEF ImportInv, Carried, Shown, Packaged
<1>11. StagingKept BY <1>1, <1>2 DEF ImportInv, Typed, StagingKept
<1> QED BY <1>1, <1>2, <1>5, <1>7, <1>9, <1>10, <1>11, BecomesKeepsLitter DEF Within

LEMMA CrashConfirmKeeps ==
    ASSUME ImportInv, NEW c \in Confirms, CrashConfirm(c)
    PROVE  ImportInv'
<1>1. UNCHANGED <<upload, Staging, packages, json, jsonFiles>> BY DEF CrashConfirm, Records
<1>2. confirm[c].pc \notin {"start", "done", "crashed"}
    BY DEF ImportInv, Carried, CrashConfirm, ConfirmDone
<1>3. PICK r : r = [confirm[c] EXCEPT !.pc = "crashed", !.handle = {}, !.row = {},
                                    !.result = "crashed"] OBVIOUS
<1>4. confirm' = [confirm EXCEPT ![c] = r] BY <1>3 DEF ImportInv, Typed, CrashConfirm
<1>5. confirm[c] \in ConfirmType BY DEF ImportInv, Typed
<1>6. r \in ConfirmType BY <1>3, <1>5 DEF ConfirmType, ConfirmPcs, ConfirmDone, Results, Inodes
<1>7. confirm'[c] = r BY <1>4 DEF ImportInv, Typed
<1>8. /\ r.pc = "crashed" /\ r.result = "crashed" /\ r.of = confirm[c].of
      /\ r.code = confirm[c].code /\ r.handle = {} /\ r.row = {}
      /\ r.snapshot = confirm[c].snapshot
    BY <1>3, <1>5 DEF ConfirmType
<1>9. Carried(c)'
    BY <1>1, <1>2, <1>7, <1>8 DEF ImportInv, Carried, Shown, Packaged
<1> QED BY <1>1, <1>2, <1>4, <1>6, <1>8, <1>9, BecomesKeeps DEF Within

LEMMA CommitFailsKeeps ==
    ASSUME ImportInv, NEW c \in Confirms, CommitFails(c)
    PROVE  ImportInv'
<1>1. UNCHANGED <<upload, Staging, packages, json, jsonFiles>> BY DEF CommitFails, Records
<1>2. confirm[c].pc = "committing" /\ confirm[c].result = "written"
    BY DEF ImportInv, Carried, CommitFails, ConfirmDone
<1>3. PICK r : r = [confirm[c] EXCEPT !.pc = "done", !.row = {}, !.result = "lost"] OBVIOUS
<1>4. confirm' = [confirm EXCEPT ![c] = r] BY <1>3 DEF ImportInv, Typed, CommitFails
<1>5. confirm[c] \in ConfirmType BY DEF ImportInv, Typed
<1>6. r \in ConfirmType BY <1>3, <1>5 DEF ConfirmType, ConfirmPcs, ConfirmDone, Results, Inodes
<1>7. confirm'[c] = r BY <1>4 DEF ImportInv, Typed
<1>8. /\ r.pc = "done" /\ r.result = "lost" /\ r.of = confirm[c].of
      /\ r.code = confirm[c].code /\ r.handle = confirm[c].handle /\ r.row = {}
      /\ r.snapshot = confirm[c].snapshot
    BY <1>3, <1>5 DEF ConfirmType
<1>9. Carried(c)'
    BY <1>1, <1>2, <1>7, <1>8 DEF ImportInv, Carried, Shown, Packaged, Staging, Locking
<1> QED BY <1>1, <1>2, <1>4, <1>6, <1>8, <1>9, BecomesKeeps DEF Within

LEMMA PurgeSnapshotKeeps ==
    ASSUME ImportInv, NEW c \in Confirms, PurgeSnapshot(c)
    PROVE  ImportInv'
<1>1. UNCHANGED <<upload, Staging, packages, json, jsonFiles>> BY DEF PurgeSnapshot, Records
<1>2. confirm[c].pc \in {"done", "crashed"}
    BY DEF ImportInv, Carried, PurgeSnapshot, ConfirmDone
<1>3. PICK r : r = [confirm[c] EXCEPT !.snapshot = {}] OBVIOUS
<1>4. confirm' = [confirm EXCEPT ![c] = r] BY <1>3 DEF ImportInv, Typed, PurgeSnapshot
<1>5. confirm[c] \in ConfirmType BY DEF ImportInv, Typed
<1>6. r \in ConfirmType BY <1>3, <1>5 DEF ConfirmType, ConfirmPcs, ConfirmDone, Results, Inodes
<1>7. confirm'[c] = r BY <1>4 DEF ImportInv, Typed
<1>8. /\ r.pc = confirm[c].pc /\ r.result = confirm[c].result /\ r.of = confirm[c].of
      /\ r.code = confirm[c].code /\ r.handle = confirm[c].handle /\ r.row = confirm[c].row
      /\ r.snapshot = {}
    BY <1>3, <1>5 DEF ConfirmType
<1>9. Carried(c)'
    BY <1>1, <1>2, <1>7, <1>8 DEF ImportInv, Carried, Shown, Packaged, Staging, Locking
<1> QED BY <1>1, <1>2, <1>4, <1>6, <1>8, <1>9, BecomesKeeps DEF Within

LEMMA OpenClaimKeeps ==
    ASSUME ImportInv, NEW c \in Confirms, OpenClaim(c)
    PROVE  ImportInv'
<1>1. UNCHANGED <<upload, files, bytes, oldLocks, slipped, litter, packages, json, jsonFiles>>
    BY DEF OpenClaim, Records
<1>2. /\ confirm[c].pc = "opening" /\ confirm[c].of \in Uploads
      /\ upload[confirm[c].of].pc = "previewed"
    BY DEF ImportInv, Carried, OpenClaim
<1>3. PICK u, inode : u = confirm[c].of /\ inode = Opened(u, c) OBVIOUS
<1>4. inode \in Inodes /\ inode # {}
    BY <1>2, <1>3, OpenedInode DEF ImportInv, Locks
<1>5. PICK r : r = [confirm[c] EXCEPT !.pc = "claiming", !.handle = inode] OBVIOUS
<1>6. confirm' = [confirm EXCEPT ![c] = r] /\ named' = [named EXCEPT ![u] = inode]
    BY <1>3, <1>5 DEF ImportInv, Typed, OpenClaim
<1>7. confirm[c] \in ConfirmType BY DEF ImportInv, Typed
<1>8. r \in ConfirmType BY <1>4, <1>5, <1>7 DEF ConfirmType, ConfirmPcs
<1>9. confirm'[c] = r /\ \A d \in Confirms : d # c => confirm'[d] = confirm[d]
    BY <1>6 DEF ImportInv, Typed
<1>10. /\ r.pc = "claiming" /\ r.result = confirm[c].result /\ r.of = u
       /\ r.code = confirm[c].code /\ r.handle = inode /\ r.row = confirm[c].row
       /\ r.snapshot = confirm[c].snapshot
    BY <1>3, <1>5, <1>7 DEF ConfirmType
<1>11. Carried(c)'
    BY <1>1, <1>2, <1>3, <1>4, <1>9, <1>10 DEF ImportInv, Carried, Shown, Packaged
<1>12. Typed'
    BY <1>1, <1>2, <1>3, <1>4, <1>6, <1>8 DEF ImportInv, Typed, Locks
<1>13. named'["quota"] = named["quota"]
    BY <1>2, <1>3, <1>6, ImportAssumption DEF ImportInv, Typed, Locks
<1>14. \A v \in Uploads : Staged(v)' BY <1>1 DEF ImportInv, Staged
<1>15. \A v \in Uploads : ClaimNamed(v)'
    <2>1. ClaimNamed(u)' BY <1>1, <1>2, <1>3, <1>9, <1>10 DEF ClaimNamed
    <2>2. ASSUME NEW v \in Uploads, v # u PROVE ClaimNamed(v)'
        <3>1. named'[v] = named[v] BY <1>6, <2>2 DEF ImportInv, Typed, Locks
        <3>2. PreviewsKept BY <1>1 DEF PreviewsKept
        <3> QED BY <1>1, <1>2, <1>3, <1>9, <2>2, <3>1, <3>2, ClaimFrame DEF ImportInv
    <2> QED BY <2>1, <2>2
<1>16. RowsApart'
    <2>1. \A w \in Writers' : w \in Writers /\ confirm'[w].row = confirm[w].row
        BY <1>9, <1>10 DEF Writers
    <2> QED BY <1>1, <2>1, RowsFrame DEF ImportInv
<1>17. NoUploadIsLost'
    <2>1. \A v \in Uploads, d \in Confirms : Answers(d, v) => Answers(d, v)'
        BY <1>3, <1>9, <1>10 DEF Answers
    <2> QED BY <1>1, <2>1, LostFrame DEF ImportInv
<1> QED BY <1>1, <1>9, <1>11, <1>12, <1>13, <1>14, <1>15, <1>16, <1>17, ConfirmFrame

\* A confirm clears the upload it holds away, and answers for it.
LEMMA CleaningKeeps ==
    ASSUME ImportInv, NEW c \in Confirms, NEW u \in Uploads, u = confirm[c].of, Cleared(u),
           NEW r \in ConfirmType, confirm' = [confirm EXCEPT ![c] = r],
           UNCHANGED <<upload, slipped, packages, json, jsonFiles>>, Carried(c)',
           r.of = u, confirm[c].pc \in Within, r.pc \in Within,
           r.result \in {"written", "rejected"},
           r.result = "written" => confirm[c].result = "written" /\ r.row = confirm[c].row
    PROVE  ImportInv'
<1>1. /\ bytes' \in {bytes, [bytes EXCEPT ![u] = {}]}
      /\ files' \in {files, [files EXCEPT ![u] = @ \ {"meta"}]}
      /\ named' \in {named, [named EXCEPT ![u] = {}]}
      /\ litter' \in {litter, litter \cup {u}}
    BY DEF Cleared
<1>2. confirm'[c] = r /\ \A d \in Confirms : d # c => confirm'[d] = confirm[d]
    BY DEF ImportInv, Typed
<1>3. Typed'
    <2>1. /\ named' \in [Locks -> Inodes] /\ oldLocks' \in SUBSET Locks
          /\ \A l \in oldLocks' : named'[l] # {}
        BY DEF ImportInv, Typed, Locks, Inodes, Cleared
    <2>2. bytes' \in [Uploads -> {{}} \cup {{d} : d \in Digests}]
        BY <1>1 DEF ImportInv, Typed
    <2> QED BY <1>1, <2>1, <2>2 DEF ImportInv, Typed
<1>4. named'["quota"] = named["quota"]
    BY <1>1, ImportAssumption DEF ImportInv, Typed, Locks
<1>5. /\ bytes'[u] \in {bytes[u], {}} /\ files'[u] \in {files[u], files[u] \ {"meta"}}
      /\ u \in litter' \/ (bytes'[u] = {} /\ files'[u] = files[u] \ {"meta"} /\ named'[u] = {})
      /\ litter \subseteq litter' /\ named'[u] \in {named[u], {}}
      /\ \A v \in Uploads : v # u =>
            bytes'[v] = bytes[v] /\ files'[v] = files[v] /\ named'[v] = named[v]
    BY <1>1 DEF ImportInv, Typed, Locks, Cleared
<1>6. upload[u].pc = "previewed" BY DEF ImportInv, Carried, Within
<1>7. \A v \in Uploads : Staged(v)'
    <2>1. Staged(u)'
        <3>1. files[u] \subseteq {"meta"} /\ files'[u] \subseteq {"meta"}
            BY <1>5, <1>6 DEF ImportInv, Staged
        <3>2. Staged(u) /\ upload'[u] = upload[u] BY DEF ImportInv
        <3> QED BY <1>5, <1>6, <3>1, <3>2 DEF Staged
    <2>2. ASSUME NEW v \in Uploads, v # u PROVE Staged(v)'
        <3>1. Staged(v) /\ upload'[v] = upload[v] BY DEF ImportInv
        <3> QED BY <1>5, <2>2, <3>1 DEF Staged
    <2> QED BY <2>1, <2>2
<1>8. \A v \in Uploads : ClaimNamed(v)'
    <2>1. PreviewsKept BY DEF PreviewsKept
    <2>2. ClaimNamed(u)' BY <1>5, <1>6 DEF ClaimNamed
    <2> QED BY <1>2, <1>5, <2>1, <2>2, ClaimFrame DEF ImportInv, Within
<1>9. RowsApart'
    <2>1. \A w \in Writers' : w \in Writers /\ confirm'[w].row = confirm[w].row
        BY <1>2 DEF Writers
    <2> QED BY <2>1, RowsFrame DEF ImportInv
<1>10. NoUploadIsLost'
    <2> SUFFICES ASSUME NEW v \in Uploads, upload'[v].pc = "previewed", bytes'[v] = {},
                        ~upload'[v].old
                 PROVE  Packaged(upload[v].digest) \/ \E d \in Confirms : Answers(d, v)'
        BY DEF NoUploadIsLost, Packaged, Answers
    <2>1. CASE v = u BY <1>2, <2>1 DEF Answers
    <2>2. CASE v # u
        <3>1. Packaged(upload[v].digest) \/ \E d \in Confirms : Answers(d, v)
            BY <1>5, <2>2 DEF ImportInv, NoUploadIsLost, Packaged, Answers
        <3>2. \A d \in Confirms : Answers(d, v) => Answers(d, v)'
            BY <1>2, <2>2 DEF Answers
        <3> QED BY <3>1, <3>2
    <2> QED BY <2>1, <2>2
<1>11. \A v \in Uploads : bytes'[v] # {} /\ "meta" \in files'[v] =>
            bytes'[v] = bytes[v] /\ "meta" \in files[v]
    BY <1>5
<1> QED BY <1>2, <1>3, <1>4, <1>5, <1>7, <1>8, <1>9, <1>10, <1>11, ConfirmFrame

LEMMA RejectSnapshotKeeps ==
    ASSUME ImportInv, NEW c \in Confirms, RejectSnapshot(c)
    PROVE  ImportInv'
<1>1. UNCHANGED <<upload, slipped, packages, json, jsonFiles>> BY DEF RejectSnapshot, Records
<1>2. /\ confirm[c].pc = "importing" /\ confirm[c].result = "none" /\ confirm[c].of \in Uploads
      /\ Cleared(confirm[c].of)
    BY CleanUpClears DEF ImportInv, Carried, RejectSnapshot
<1>3. Moves(c, "releasing", "rejected")
    BY RefuseIs DEF ImportInv, RejectSnapshot, ConfirmPcs, Results
<1>4. Carried(c)'
    BY <1>1, <1>2, <1>3 DEF Cleared, ImportInv, Carried, Moves, Shown, Packaged
<1>5. PICK r \in ConfirmType : r = confirm'[c] BY <1>3 DEF Moves
<1>6. /\ confirm' = [confirm EXCEPT ![c] = r]
      /\ r.of = confirm[c].of /\ r.pc = "releasing" /\ r.result = "rejected"
    BY <1>3, <1>5 DEF Moves
<1> QED BY <1>1, <1>2, <1>4, <1>6, CleaningKeeps DEF Within

LEMMA CleanUpKeeps ==
    ASSUME ImportInv, NEW c \in Confirms, CleanUp(c)
    PROVE  ImportInv'
<1>1. UNCHANGED <<upload, slipped, packages, json, jsonFiles>> BY DEF CleanUp, Records
<1>2. /\ confirm[c].pc = "cleaning" /\ confirm[c].result = "written" /\ confirm[c].of \in Uploads
      /\ Cleared(confirm[c].of)
    BY CleanUpClears DEF ImportInv, Carried, CleanUp
<1>3. Moves(c, "releasing", "written")
    BY <1>2, MoveIs DEF ImportInv, CleanUp, ConfirmPcs
<1>4. litter \subseteq litter' BY <1>2 DEF Cleared
<1>5. Carried(c)' BY <1>1, <1>2, <1>3, <1>4 DEF ImportInv, Carried, Moves, Shown, Packaged
<1>6. PICK r \in ConfirmType : r = confirm'[c] BY <1>3 DEF Moves
<1>7. /\ confirm' = [confirm EXCEPT ![c] = r]
      /\ r.of = confirm[c].of /\ r.pc = "releasing" /\ r.result = "written"
      /\ r.row = confirm[c].row
    BY <1>3, <1>6 DEF Moves
<1> QED BY <1>1, <1>2, <1>5, <1>7, CleaningKeeps DEF Within

LEMMA UnlinkClaimKeeps ==
    ASSUME ImportInv, NEW c \in Confirms, UnlinkClaim(c)
    PROVE  ImportInv'
<1>1. UNCHANGED <<upload, files, bytes, slipped, packages, json, jsonFiles>>
    BY DEF UnlinkClaim, Records
<1>2. confirm[c].pc = "unlinking" /\ confirm[c].of \in Uploads
    BY DEF ImportInv, Carried, UnlinkClaim
<1>3. PICK pc : pc = IF confirm[c].result = "written" THEN "committing" ELSE "done" OBVIOUS
<1>4. Moves(c, pc, confirm[c].result)
    BY <1>3, MoveIs DEF ImportInv, UnlinkClaim, ConfirmPcs, ConfirmDone
<1>5. \A d \in Confirms : d # c => confirm'[d] = confirm[d]
    BY <1>4 DEF ImportInv, Typed, Moves
<1>6. PICK u \in Uploads : u = confirm[c].of BY <1>2
<1>7. \/ named' = [named EXCEPT ![u] = {}] /\ oldLocks' = oldLocks \ {u} /\ litter' = litter
      \/ named' = named /\ oldLocks' = oldLocks /\ litter' = litter \cup {u}
    BY <1>6 DEF UnlinkClaim, Unlink, LeavesLitter
<1>8. Carried(c)'
    BY <1>1, <1>2, <1>3, <1>4, <1>7 DEF ImportInv, Carried, Moves, Shown, Packaged
<1>9. Typed'
    <2>1. named' \in [Locks -> Inodes] /\ \A l \in oldLocks' : named'[l] # {}
        BY <1>7 DEF ImportInv, Typed, Locks, Inodes
    <2>2. confirm' \in [Confirms -> ConfirmType] BY <1>4 DEF ImportInv, Typed, Moves
    <2> QED BY <1>1, <1>7, <2>1, <2>2 DEF ImportInv, Typed
<1>10. /\ named'["quota"] = named["quota"] /\ (named'[u] = {} \/ u \in litter')
       /\ litter \subseteq litter' /\ named'[u] \in {named[u], {}}
       /\ \A v \in Uploads : v # u => named'[v] = named[v]
    BY <1>7, ImportAssumption DEF ImportInv, Typed, Locks
<1>11. \A v \in Uploads : Staged(v)' BY <1>1, <1>10 DEF ImportInv, Staged
<1>12. \A v \in Uploads : ClaimNamed(v)'
    <2>1. PreviewsKept BY <1>1 DEF PreviewsKept
    <2>2. ClaimNamed(u)' BY <1>1, <1>10 DEF ImportInv, ClaimNamed
    <2> QED BY <1>5, <1>6, <1>10, <2>1, <2>2, ClaimFrame DEF ImportInv
<1>13. RowsApart'
    <2>1. \A w \in Writers' : w \in Writers /\ confirm'[w].row = confirm[w].row
        BY <1>4, <1>5 DEF Writers, Moves
    <2> QED BY <1>1, <2>1, RowsFrame DEF ImportInv
<1>14. NoUploadIsLost'
    <2>1. \A v \in Uploads, d \in Confirms : Answers(d, v) => Answers(d, v)'
        BY <1>4, <1>5 DEF Answers, Moves
    <2> QED BY <1>1, <2>1, LostFrame DEF ImportInv
<1> QED BY <1>1, <1>5, <1>8, <1>9, <1>10, <1>11, <1>12, <1>13, <1>14, ConfirmFrame

LEMMA CommitKeeps ==
    ASSUME ImportInv, NEW c \in Confirms, Commit(c)
    PROVE  ImportInv'
<1>1. /\ UNCHANGED <<upload, files, bytes, named, oldLocks, slipped, litter, json, jsonFiles>>
      /\ packages' = packages \cup confirm[c].row
    BY DEF Commit, Staging, Locking
<1>2. /\ confirm[c].pc = "committing" /\ confirm[c].result = "written"
      /\ confirm[c].of \in Uploads /\ upload[confirm[c].of].pc = "previewed"
      /\ confirm[c].row \subseteq {Shown(c)}
    BY DEF ImportInv, Carried, Commit
<1>3. PICK r : r = [confirm[c] EXCEPT !.pc = "done", !.result = "imported"] OBVIOUS
<1>4. confirm' = [confirm EXCEPT ![c] = r] BY <1>3 DEF ImportInv, Typed, Commit
<1>5. confirm[c] \in ConfirmType BY DEF ImportInv, Typed
<1>6. r \in ConfirmType BY <1>3, <1>5 DEF ConfirmType, ConfirmPcs, ConfirmDone, Results
<1>7. confirm'[c] = r /\ \A d \in Confirms : d # c => confirm'[d] = confirm[d]
    BY <1>4 DEF ImportInv, Typed
<1>8. /\ r.pc = "done" /\ r.result = "imported" /\ r.of = confirm[c].of
      /\ r.code = confirm[c].code /\ r.handle = confirm[c].handle /\ r.row = confirm[c].row
      /\ r.snapshot = confirm[c].snapshot
    BY <1>3, <1>5 DEF ConfirmType
<1>9. PICK u \in Uploads : u = confirm[c].of BY <1>2
<1>10. /\ upload[u].code \in Codes /\ upload[u].digest \in Digests /\ Sound[upload[u].digest]
       /\ upload[u].pc = "previewed"
    BY <1>2, <1>9 DEF ImportInv, Staged
<1>11. /\ Shown(c).source = "gpkg" /\ Shown(c).digest = upload[u].digest
       /\ Shown(c).code = upload[u].code /\ Shown(c).objects = Objects[upload[u].digest]
    BY <1>9, <1>10, RowTyped DEF Shown
<1>12. Packaged(upload[u].digest)'
    <2>1. CASE confirm[c].row # {}
        <3>1. Shown(c) \in packages' BY <1>1, <1>2, <2>1
        <3> QED BY <1>1, <1>11, <3>1 DEF Packaged
    <2>2. CASE Packaged(upload[u].digest) BY <1>1, <2>2 DEF Packaged
    <2> QED BY <1>2, <1>9, <2>1, <2>2 DEF ImportInv, Carried
<1>13. Typed'
    <2>1. packages' \in SUBSET RowType BY <1>1, <1>5 DEF ImportInv, Typed, ConfirmType
    <2> QED BY <1>1, <1>4, <1>6, <2>1 DEF ImportInv, Typed
<1>14. PreviewsKept BY <1>1 DEF PreviewsKept
<1>15. \A d \in Confirms : Carried(d)'
    <2>1. Shown(c)' = Shown(c) BY <1>1, <1>7, <1>8 DEF Shown, RowOf
    <2>2. Carried(c)'
        BY <1>1, <1>2, <1>7, <1>8, <1>9, <1>12, <2>1 DEF ImportInv, Carried
    <2> QED BY <1>1, <1>7, <1>14, <2>2, CarriedFrame DEF ImportInv
<1>16. \A v \in Uploads : Staged(v)' /\ ClaimNamed(v)'
    <2>1. \A v \in Uploads : Staged(v)' BY <1>1 DEF ImportInv, Staged
    <2>2. \A v \in Uploads : ClaimNamed(v)'
        BY <1>1, <1>2, <1>7, <1>14, ClaimFrame DEF ImportInv
    <2> QED BY <2>1, <2>2
<1>17. QuotaKept'
    <2>1. \A v \in Pending' : v \in Pending /\ Counted'[v] <= Counted[v]
        BY <1>1, <1>13, PendingShrinks DEF ImportInv
    <2>2. Counting' = Counting BY <1>1 DEF Counting
    <2> QED BY <1>1, <1>13, <2>1, <2>2, QuotaFrame DEF ImportInv
<1>18. RowsApart'
    <2>1. c \in Writers /\ Writers' = Writers \ {c}
        BY <1>2, <1>7, <1>8 DEF Writers
    <2>2. \A p \in packages, q \in confirm[c].row : ~Collide(p, q) /\ ~Collide(q, p)
        BY <2>1 DEF ImportInv, RowsApart, Collides, Collide
    <2>3. \A p, q \in packages' : p # q => ~Collide(p, q)
        BY <1>1, <1>2, <2>2 DEF ImportInv, RowsApart
    <2>4. \A w \in Writers' : confirm'[w].row = confirm[w].row BY <1>7, <2>1 DEF Writers
    <2>5. \A w \in Writers' : \A p \in packages', q \in confirm[w].row : ~Collide(p, q)
        BY <1>1, <2>1 DEF ImportInv, RowsApart, Collides
    <2>6. \A v, w \in Writers' : v # w =>
            \A p \in confirm[v].row, q \in confirm[w].row : ~Collide(p, q)
        BY <2>1 DEF ImportInv, RowsApart
    <2> QED BY <2>3, <2>4, <2>5, <2>6 DEF RowsApart, Collides
<1>19. ImportedAsPreviewed'
    <2>1. upload' = upload BY <1>1
    <2> QED BY <1>1, <1>2, <1>9, <1>10, <1>11, <2>1 DEF ImportInv, ImportedAsPreviewed
<1>20. NoUploadIsLost'
    <2>1. \A v \in Uploads, d \in Confirms :
            Answers(d, v) => Answers(d, v)' \/ Packaged(upload[v].digest)'
        BY <1>7, <1>9, <1>12 DEF Answers
    <2> QED BY <1>1, <2>1, LostFrame DEF ImportInv
<1>21. JsonFilesKept' BY <1>1 DEF ImportInv, JsonFilesKept
<1> QED BY <1>13, <1>15, <1>16, <1>17, <1>18, <1>19, <1>20, <1>21 DEF ImportInv

LEMMA JsonRowTyped ==
    ASSUME NEW digest \in DOMAIN JsonFiles
    PROVE  /\ JsonRow[digest] \in RowType
           /\ JsonRow[digest].digest = digest /\ JsonRow[digest].source = "json"
<1>1. PICK objects : objects = {o.code : o \in JsonObjects(JsonFiles[digest])} OBVIOUS
<1>2. JsonRow[digest] = [code |-> JsonFiles[digest].code, digest |-> digest, objects |-> objects,
                         source |-> "json"]
    BY <1>1 DEF JsonRow
<1>3. JsonRow[digest].objects \in SUBSET UNION ({Objects[d] : d \in Digests}
                                        \cup {JsonRow[d].objects : d \in DOMAIN JsonFiles})
    OBVIOUS
<1> HIDE DEF Objects, JsonRow
<1> QED BY <1>2, <1>3 DEF RowType

\* A step of a JSON request: the two-request import stands still.
LEMMA JsonFrame ==
    ASSUME ImportInv, UNCHANGED <<upload, confirm, Staging>>,
           packages \subseteq packages', packages' \in SUBSET RowType,
           NEW j \in JsonUploads, NEW r \in JsonType, json' = [json EXCEPT ![j] = r],
           RowsApart', ImportedAsPreviewed', JsonFilesKept'
    PROVE  ImportInv'
<1>1. UNCHANGED <<upload, files, bytes, confirm, named, oldLocks, slipped, litter>>
    BY DEF Staging, Locking
<1>2. PreviewsKept BY <1>1 DEF PreviewsKept
<1>3. Typed' BY <1>1 DEF ImportInv, Typed
<1>4. \A d \in Confirms : Carried(d)' BY <1>1, <1>2, CarriedFrame DEF ImportInv
<1>5. \A v \in Uploads : Staged(v)' BY <1>1 DEF ImportInv, Staged
<1>6. \A v \in Uploads : ClaimNamed(v)' BY <1>1, <1>2, ClaimFrame DEF ImportInv
<1>7. QuotaKept'
    <2>1. \A v \in Pending' : v \in Pending /\ Counted'[v] <= Counted[v]
        BY <1>1, <1>3, PendingShrinks DEF ImportInv
    <2>2. Counting' = Counting BY <1>1 DEF Counting
    <2> QED BY <1>1, <1>3, <2>1, <2>2, QuotaFrame DEF ImportInv
<1>8. NoUploadIsLost'
    <2>1. \A v \in Uploads, d \in Confirms : Answers(d, v) => Answers(d, v)'
        BY <1>1 DEF Answers
    <2> QED BY <1>1, <2>1, LostFrame DEF ImportInv
<1> QED BY <1>3, <1>4, <1>5, <1>6, <1>7, <1>8 DEF ImportInv

\* Where no package is added the rows stay as they are.
LEMMA JsonRest ==
    ASSUME ImportInv, UNCHANGED <<upload, confirm, Staging, packages>>,
           NEW j \in JsonUploads, NEW r \in JsonType, json' = [json EXCEPT ![j] = r],
           JsonFilesKept'
    PROVE  ImportInv'
<1>1. packages \subseteq packages' /\ packages' \in SUBSET RowType BY DEF ImportInv, Typed
<1>2. RowsApart' BY RowsFrame DEF ImportInv, Writers
<1>3. ImportedAsPreviewed' BY DEF ImportInv, ImportedAsPreviewed
<1> QED BY <1>1, <1>2, <1>3, JsonFrame

\* A request that has stored a file knows which.
LEMMA StoredFile ==
    ASSUME ImportInv, NEW j \in JsonUploads, json[j][1] = "stored"
    PROVE  \E d \in DOMAIN JsonFiles : json[j] = <<"stored", d>>
<1>1. json[j] \in JsonType BY DEF ImportInv, Typed
<1>2. json[j] # NoJson BY DEF NoJson
<1> QED BY <1>1, <1>2 DEF JsonType

LEMMA ReceiveJsonKeeps ==
    ASSUME ImportInv, NEW j \in JsonUploads, NEW digest \in DOMAIN JsonFiles,
           ReceiveJson(j, digest)
    PROVE  ImportInv'
<1>1. PICK r : r = <<"stored", digest>> OBVIOUS
<1>2. r \in JsonType BY <1>1 DEF JsonType
<1>3. json' = [json EXCEPT ![j] = r] BY <1>1 DEF ReceiveJson
<1>4. json'[j] = r /\ \A k \in JsonUploads : k # j => json'[k] = json[k]
    BY <1>3 DEF ImportInv, Typed
<1>5. \A d \in DOMAIN JsonFiles : json[j] \notin {<<"stored", d>>, <<"crashed", d>>}
    BY DEF ReceiveJson
<1>6. JsonFilesKept'
    <2> SUFFICES ASSUME NEW d \in jsonFiles', d # digest,
                        ~ \E p \in packages' : p.source = "json" /\ p.digest = d
                 PROVE  \E k \in JsonUploads : json'[k] \in {<<"stored", d>>, <<"crashed", d>>}
        BY <1>1, <1>4 DEF JsonFilesKept
    <2>1. d \in jsonFiles /\ packages' = packages BY DEF ReceiveJson
    <2>2. PICK k \in JsonUploads : json[k] \in {<<"stored", d>>, <<"crashed", d>>}
        BY <2>1 DEF ImportInv, JsonFilesKept
    <2>3. k # j BY <2>2 DEF ReceiveJson
    <2> QED BY <1>4, <2>2, <2>3
<1>7. UNCHANGED <<upload, confirm, Staging, packages>> BY DEF ReceiveJson
<1> QED BY <1>2, <1>3, <1>6, <1>7, JsonRest

LEMMA RefuseJsonKeeps ==
    ASSUME ImportInv, NEW j \in JsonUploads, RefuseJson(j)
    PROVE  ImportInv'
<1>1. PICK digest \in DOMAIN JsonFiles : json[j] = <<"stored", digest>>
    BY StoredFile DEF RefuseJson
<1>2. NoJson \in JsonType BY DEF JsonType
<1>3. json' = [json EXCEPT ![j] = NoJson] BY DEF RefuseJson
<1>4. \A k \in JsonUploads : k # j => json'[k] = json[k] BY <1>3 DEF ImportInv, Typed
<1>5. JsonFilesKept'
    <2> SUFFICES ASSUME NEW d \in jsonFiles',
                        ~ \E p \in packages' : p.source = "json" /\ p.digest = d
                 PROVE  \E k \in JsonUploads : json'[k] \in {<<"stored", d>>, <<"crashed", d>>}
        BY DEF JsonFilesKept
    <2>1. d \in jsonFiles /\ d # digest /\ packages' = packages BY <1>1 DEF RefuseJson
    <2>2. PICK k \in JsonUploads : json[k] \in {<<"stored", d>>, <<"crashed", d>>}
        BY <2>1 DEF ImportInv, JsonFilesKept
    <2>3. k # j BY <1>1, <2>1, <2>2
    <2> QED BY <1>4, <2>2, <2>3
<1>6. UNCHANGED <<upload, confirm, Staging, packages>> BY DEF RefuseJson
<1> QED BY <1>2, <1>3, <1>5, <1>6, JsonRest

LEMMA CrashJsonKeeps ==
    ASSUME ImportInv, NEW j \in JsonUploads, CrashJson(j)
    PROVE  ImportInv'
<1>1. PICK digest \in DOMAIN JsonFiles : json[j] = <<"stored", digest>>
    BY StoredFile DEF CrashJson
<1>2. PICK r : r = <<"crashed", digest>> OBVIOUS
<1>3. r \in JsonType BY <1>2 DEF JsonType
<1>4. json' = [json EXCEPT ![j] = r]
    BY <1>1, <1>2 DEF CrashJson, MoveJson, ImportInv, Typed
<1>5. json'[j] = r /\ \A k \in JsonUploads : k # j => json'[k] = json[k]
    BY <1>4 DEF ImportInv, Typed
<1>6. JsonFilesKept'
    <2> SUFFICES ASSUME NEW d \in jsonFiles',
                        ~ \E p \in packages' : p.source = "json" /\ p.digest = d
                 PROVE  \E k \in JsonUploads : json'[k] \in {<<"stored", d>>, <<"crashed", d>>}
        BY DEF JsonFilesKept
    <2>1. d \in jsonFiles /\ packages' = packages BY DEF CrashJson
    <2>2. PICK k \in JsonUploads : json[k] \in {<<"stored", d>>, <<"crashed", d>>}
        BY <2>1 DEF ImportInv, JsonFilesKept
    <2>3. CASE k = j
        <3>1. d = digest BY <1>1, <2>2, <2>3
        <3> QED BY <1>2, <1>5, <3>1
    <2>4. CASE k # j BY <1>5, <2>2, <2>4
    <2> QED BY <2>3, <2>4
<1>7. UNCHANGED <<upload, confirm, Staging, packages>> BY DEF CrashJson
<1> QED BY <1>3, <1>4, <1>6, <1>7, JsonRest

LEMMA ImportJsonKeeps ==
    ASSUME ImportInv, NEW j \in JsonUploads, ImportJson(j)
    PROVE  ImportInv'
<1>1. PICK digest \in DOMAIN JsonFiles : json[j] = <<"stored", digest>>
    BY StoredFile DEF ImportJson
<1>2. PICK row \in RowType : row = JsonRow[digest] /\ row.digest = digest /\ row.source = "json"
    BY JsonRowTyped
<1>3. json[j][2] = digest BY <1>1
<1>4. /\ MayWrite({row}) /\ ~Collides({row}) /\ packages' = packages \cup {row}
      /\ MoveJson(j, "imported") /\ UNCHANGED <<upload, confirm, Staging, jsonFiles>>
    BY <1>2, <1>3 DEF ImportJson
<1>5. PICK r : r = <<"imported", digest>> OBVIOUS
<1>6. r \in JsonType BY <1>5 DEF JsonType
<1>7. json' = [json EXCEPT ![j] = r]
    BY <1>1, <1>4, <1>5 DEF MoveJson, ImportInv, Typed
<1>8. \A k \in JsonUploads : k # j => json'[k] = json[k] BY <1>7 DEF ImportInv, Typed
<1>9. RowsApart'
    <2>1. Writers' = Writers /\ confirm' = confirm BY <1>4 DEF Writers
    <2>2. \A p \in packages : ~Collide(p, row) /\ ~Collide(row, p)
        BY <1>4 DEF Collides, Collide
    <2>3. \A w \in Writers : \A q \in confirm[w].row : ~Collide(row, q)
        BY <1>4 DEF MayWrite, Collide
    <2>4. \A p, q \in packages' : p # q => ~Collide(p, q)
        BY <1>4, <2>2 DEF ImportInv, RowsApart
    <2>5. \A w \in Writers : \A p \in packages', q \in confirm[w].row : ~Collide(p, q)
        BY <1>4, <2>3 DEF ImportInv, RowsApart, Collides
    <2>6. \A v, w \in Writers : v # w =>
            \A p \in confirm[v].row, q \in confirm[w].row : ~Collide(p, q)
        BY DEF ImportInv, RowsApart
    <2> QED BY <2>1, <2>4, <2>5, <2>6 DEF RowsApart, Collides
<1>10. ImportedAsPreviewed'
    BY <1>2, <1>4 DEF ImportInv, ImportedAsPreviewed
<1>11. JsonFilesKept'
    <2> SUFFICES ASSUME NEW d \in jsonFiles',
                        ~ \E p \in packages' : p.source = "json" /\ p.digest = d
                 PROVE  \E k \in JsonUploads : json'[k] \in {<<"stored", d>>, <<"crashed", d>>}
        BY DEF JsonFilesKept
    <2>1. d \in jsonFiles /\ d # digest /\ ~ \E p \in packages : p.source = "json" /\ p.digest = d
        BY <1>2, <1>4
    <2>2. PICK k \in JsonUploads : json[k] \in {<<"stored", d>>, <<"crashed", d>>}
        BY <2>1 DEF ImportInv, JsonFilesKept
    <2>3. k # j BY <1>1, <2>1, <2>2
    <2> QED BY <1>8, <2>2, <2>3
<1>12. packages \subseteq packages' /\ packages' \in SUBSET RowType
    BY <1>4 DEF ImportInv, Typed
<1> QED BY <1>4, <1>6, <1>7, <1>9, <1>10, <1>11, <1>12, JsonFrame

-----------------------------------------------------------------------------
(***************************************************************************)
(* The invariant, and what follows from it.                                *)
(***************************************************************************)
LEMMA NothingCounted ==
    ASSUME Typed, Pending = {}
    PROVE  PendingBytes = 0 /\ Cardinality(Pending) = 0
<1>1. IsFiniteSet(Uploads) BY ImportAssumption
<1>2. Counted = [u \in Uploads |-> 0] BY DEF Counted
<1>3. PICK f : f = Counted OBVIOUS
<1>4. f \in [Uploads -> Nat] /\ DOMAIN f = Uploads BY <1>2, <1>3
<1>5. SumFunctionOnSet(f, Uploads) = 0 BY <1>1, <1>2, <1>3, SumOfNothing
<1>6. PendingBytes = SumFunctionOnSet(f, Uploads)
    BY <1>3, <1>4, PendingSum DEF SumFunction
<1> QED BY <1>5, <1>6, FS_EmptySet

LEMMA ImportInit ==
    ASSUME Init
    PROVE  ImportInv
<1>1. Typed
    <2>1. NoUpload \in UploadType BY DEF NoUpload, UploadType, UploadPcs, Inodes
    <2>2. NoConfirm \in ConfirmType BY DEF NoConfirm, ConfirmType, ConfirmPcs, Inodes, Results
    <2> QED BY <2>1, <2>2 DEF Init, Typed, Inodes, JsonType
<1>2. \A u \in Uploads : Staged(u) BY DEF Init, NoUpload, Staged
<1>3. \A c \in Confirms : Carried(c) BY DEF Init, NoConfirm, Carried
<1>4. \A u \in Uploads : ClaimNamed(u) BY DEF Init, ClaimNamed, Locks
<1>5. QuotaKept
    <2>1. Pending = {} BY DEF Init, Pending
    <2>2. Counting = {} BY DEF Init, Counting, NoUpload
    <2>3. \A u \in Uploads : upload[u].handle = {} BY DEF Init, NoUpload
    <2> QED BY <1>1, <2>1, <2>2, <2>3, NothingCounted, ImportAssumption DEF QuotaKept
<1>6. RowsApart BY DEF Init, RowsApart, Writers, NoConfirm
<1>7. ImportedAsPreviewed BY DEF Init, ImportedAsPreviewed
<1>8. NoUploadIsLost BY DEF Init, NoUploadIsLost, NoUpload
<1>9. JsonFilesKept BY DEF Init, JsonFilesKept
<1> QED BY <1>1, <1>2, <1>3, <1>4, <1>5, <1>6, <1>7, <1>8, <1>9 DEF ImportInv

LEMMA InspectKeeps ==
    ASSUME ImportInv, NEW u \in Uploads, Inspect(u)
    PROVE  ImportInv'
BY InspectOutcomes, PassesKeeps, FailsKeeps

LEMMA EnterQuotaKeeps ==
    ASSUME ImportInv, NEW u \in Uploads, EnterQuota(u)
    PROVE  ImportInv'
BY EnterQuotaOutcomes, EntersKeeps, TurnedAwayKeeps

LEMMA ImportNext ==
    ASSUME ImportInv, [Next]_vars
    PROVE  ImportInv'
<1>1. ASSUME NEW u \in Uploads, BeginPreview(u) PROVE ImportInv'
    BY <1>1, BeginPreviewKeeps
<1>2. ASSUME NEW u \in Uploads, UploadStep(u) PROVE ImportInv'
    BY <1>2, OpenQuotaKeeps, EnterQuotaKeeps, RenamePartialKeeps, DescribeKeeps, InspectKeeps
       DEF UploadStep
<1>3. ASSUME NEW u \in Uploads,
             WriteFails(u) \/ CrashUpload(u) \/ PurgeStaged(u) \/ Expire(u)
      PROVE  ImportInv'
    BY <1>3, WriteFailsKeeps, CrashUploadKeeps, PurgeStagedKeeps, ExpireKeeps
<1>4. ASSUME NEW u \in Uploads, Tamper(u) PROVE ImportInv'
    BY <1>4, TamperKeeps
<1>5. ASSUME NEW c \in Confirms, BeginConfirm(c) PROVE ImportInv'
    BY <1>5, BeginConfirmKeeps
<1>6. ASSUME NEW c \in Confirms, ConfirmStep(c) PROVE ImportInv'
    BY <1>6, VerifyTokenKeeps, OpenClaimKeeps, ClaimKeeps, TakeSnapshotKeeps, LookUpKeeps,
       InsertKeeps, CleanUpKeeps, ReleaseKeeps, UnlinkClaimKeeps, CommitKeeps
       DEF ConfirmStep
<1>7. ASSUME NEW c \in Confirms,
             \/ SnapshotFails(c) \/ RejectSnapshot(c) \/ CommitFails(c)
             \/ CrashConfirm(c) \/ PurgeSnapshot(c)
      PROVE  ImportInv'
    BY <1>7, SnapshotFailsKeeps, RejectSnapshotKeeps, CommitFailsKeeps, CrashConfirmKeeps, PurgeSnapshotKeeps
<1>8. ASSUME NEW l \in Locks, PurgeLock(l) \/ ExpireLock(l) PROVE ImportInv'
    BY <1>8, PurgeLockKeeps, ExpireLockKeeps
<1>9. ASSUME NEW j \in JsonUploads,
             \/ \E d \in DOMAIN JsonFiles : ReceiveJson(j, d)
             \/ ImportJson(j) \/ RefuseJson(j) \/ CrashJson(j)
      PROVE  ImportInv'
    BY <1>9, ReceiveJsonKeeps, ImportJsonKeeps, RefuseJsonKeeps, CrashJsonKeeps
<1>10. CASE UNCHANGED vars
    <2>1. UNCHANGED <<upload, files, bytes, confirm, named, oldLocks, slipped, litter, packages, json,
                    jsonFiles>>
        BY <1>10 DEF vars
    <2>2. Typed' BY <2>1 DEF ImportInv, Typed
    <2>3. PreviewsKept BY <2>1 DEF PreviewsKept
    <2>4. \A v \in Uploads : Staged(v)' BY <2>1 DEF ImportInv, Staged
    <2>5. QuotaKept'
        <3>1. \A v \in Pending' : v \in Pending /\ Counted'[v] <= Counted[v]
            BY <2>1, <2>2, PendingShrinks DEF ImportInv
        <3>2. Counting' = Counting BY <2>1 DEF Counting
        <3> QED BY <2>1, <2>2, <3>1, <3>2, QuotaFrame DEF ImportInv
    <2> QED BY <2>1, <2>2, <2>3, <2>4, <2>5, UploadFrame
<1> QED BY <1>1, <1>2, <1>3, <1>4, <1>5, <1>6, <1>7, <1>8, <1>9, <1>10 DEF Next

\* No step of any number of previews, confirms, JSON imports and purges, in
\* whatever order and wherever they crash, breaks any of the parts of ImportInv.
THEOREM ImportInvariant == Spec => []ImportInv
<1>1. Init => ImportInv BY ImportInit
<1>2. ImportInv /\ [Next]_vars => ImportInv' BY ImportNext
<1> QED BY <1>1, <1>2, PTL DEF Spec

\* Between a preview and the package nothing is mixed up and nothing doubled:
\* a row in the database holds the digest, code and objects of a finished
\* preview, and no two rows share bytes or an object, however many previews and
\* confirms (gpkg_staging.py, gpkg_import.py) overlap, die or find the staged
\* file changed.
THEOREM ImportsAreWhatWasShown == Spec => []PackagesAreWhatWasShown
<1>1. ImportInv => TypeOK
    <2> SUFFICES ASSUME ImportInv PROVE TypeOK OBVIOUS
    <2>1. \A x : Cardinality({x}) = 1 BY FS_Singleton
    <2>2. Cardinality({}) = 0 BY FS_EmptySet
    <2>3. \A u \in Uploads :
            /\ upload[u].pc \in UploadPcs
            /\ (upload[u].handle # {}) = (upload[u].pc \in {"waiting", "writing", "describing"})
        BY DEF ImportInv, Typed, UploadType, Staged
    <2>4. \A c \in Confirms :
            /\ confirm[c].pc \in ConfirmPcs
            /\ (confirm[c].handle # {}) =
                  (confirm[c].pc \in {"claiming", "claimed", "importing", "inserting",
                                      "cleaning", "releasing"})
            /\ confirm[c].result = "written" => confirm[c].pc \in
                  {"cleaning", "releasing", "unlinking", "committing"}
        BY DEF ImportInv, Typed, ConfirmType, Carried
    <2>5. \A u \in Uploads : files[u] \in SUBSET {"partial", "meta"} BY DEF ImportInv, Typed
    <2>6. \A u \in Uploads : bytes[u] \in SUBSET Digests /\ Cardinality(bytes[u]) <= 1
        <3> SUFFICES ASSUME NEW u \in Uploads
                     PROVE  bytes[u] \in SUBSET Digests /\ Cardinality(bytes[u]) <= 1
            OBVIOUS
        <3>1. bytes[u] \in {{}} \cup {{d} : d \in Digests} BY DEF ImportInv, Typed
        <3>2. CASE bytes[u] = {} BY <2>2, <3>2
        <3>3. CASE bytes[u] # {}
            <4>1. PICK d \in Digests : bytes[u] = {d} BY <3>1, <3>3
            <4>2. Cardinality({d}) = 1 /\ {d} \in SUBSET Digests BY <2>1
            <4> QED BY <4>1, <4>2
        <3> QED BY <3>2, <3>3
    <2>7. \A l \in Locks : Cardinality(named[l]) <= 1 /\ (l \in oldLocks => named[l] # {})
        <3> SUFFICES ASSUME NEW l \in Locks PROVE Cardinality(named[l]) <= 1
            BY DEF ImportInv, Typed
        <3>1. named[l] \in {{}} \cup {{r} : r \in Uploads \cup Confirms}
            BY DEF ImportInv, Typed, Inodes
        <3>2. CASE named[l] = {} BY <2>2, <3>2
        <3>3. CASE named[l] # {}
            <4>1. PICK r \in Uploads \cup Confirms : named[l] = {r} BY <3>1, <3>3
            <4>2. Cardinality({r}) = 1 BY <2>1
            <4> QED BY <4>1, <4>2
        <3> QED BY <3>2, <3>3
    <2>8. packages \subseteq RowType BY DEF ImportInv, Typed
    <2>9. \A j \in JsonUploads : json[j][1] \in {"waiting", "stored", "imported", "crashed"}
        BY DEF ImportInv, Typed, JsonType, NoJson
    <2> QED BY <2>3, <2>4, <2>5, <2>6, <2>7, <2>8, <2>9 DEF TypeOK, UploadPcs, ConfirmPcs
<1>2. ImportInv => ImportedOnce
    <2> SUFFICES ASSUME ImportInv PROVE ImportedOnce OBVIOUS
    <2>1. \A p, q \in packages : p # q =>
            /\ p.source = q.source => p.digest # q.digest
            /\ p.objects \cap q.objects = {}
        BY DEF ImportInv, RowsApart, Collide
    <2>2. \A c \in Confirms : confirm[c].result = "imported" =>
            \E p \in packages : p.source = "gpkg" /\ p.digest = upload[confirm[c].of].digest
        BY DEF ImportInv, Carried, Packaged
    <2> QED BY <2>1, <2>2 DEF ImportedOnce
<1>3. ImportInv => PackagesAreWhatWasShown
    BY <1>1, <1>2 DEF ImportInv, PackagesAreWhatWasShown
<1> QED BY <1>3, ImportInvariant, PTL

\* However many previews of one actor overlap, die or fail, they have no more
\* staged than the quota allows, in number or in bytes, unless it slipped in one
\* of the three ways PendingWithinQuota names (gpkg_staging.py, stage_upload).
THEOREM ImportStaysWithinQuota == Spec => []PendingWithinQuota
<1>1. ImportInv => PendingWithinQuota
    BY DEF ImportInv, QuotaKept, PendingWithinQuota
<1> QED BY <1>1, ImportInvariant, PTL

\* An upload that was previewed is there until it is too old or imported, and
\* when nothing runs and nothing died the staging directory and the JSON files
\* hold what a preview or a package accounts for, and nothing else.
THEOREM ImportKeepsWhatItOwes == Spec => []StagingKeepsWhatItOwes
<1>1. ImportInv => QuietMeansClean
    <2> SUFFICES ASSUME ImportInv PROVE QuietMeansClean OBVIOUS
    <2>1. \A d \in jsonFiles :
            \/ \E p \in packages : p.source = "json" /\ p.digest = d
            \/ \E k \in JsonUploads : json[k] \in {"stored", "crashed"} \X {d}
        BY DEF ImportInv, JsonFilesKept
    <2>2. ASSUME \A u \in Uploads : upload[u].pc \in {"start", "refused", "previewed"},
                 \A c \in Confirms : confirm[c].pc \in {"start", "done"}
          PROVE  /\ \A u \in Uploads \ litter :
                        /\ files[u] = IF bytes[u] = {} THEN {} ELSE {"meta"}
                        /\ named[u] = {}
                 /\ \A c \in Confirms : confirm[c].snapshot # {} =>
                        confirm[c].result = "unwritten" \/ confirm[c].of \in litter
        <3>1. \A u \in Uploads \ litter : files[u] = IF bytes[u] = {} THEN {} ELSE {"meta"}
            BY <2>2 DEF ImportInv, Staged
        <3>2. \A u \in Uploads \ litter : named[u] = {} BY <2>2 DEF ImportInv, ClaimNamed
        <3>3. \A c \in Confirms : confirm[c].snapshot # {} =>
                confirm[c].result = "unwritten" \/ confirm[c].of \in litter
            BY <2>2 DEF ImportInv, Carried
        <3> QED BY <3>1, <3>2, <3>3
    <2> QED BY <2>1, <2>2 DEF QuietMeansClean
<1>2. ImportInv => StagingKeepsWhatItOwes
    BY <1>1 DEF ImportInv, StagingKeepsWhatItOwes
<1> QED BY <1>2, ImportInvariant, PTL
=============================================================================
