---------------------------- MODULE DesignImport ----------------------------
(***************************************************************************)
(* Uploading a standard GeoPackage in two requests (services/              *)
(* gpkg_staging.py, services/gpkg_import.py, api/work_order_routes.py): a  *)
(* preview stages the bytes under a quota and returns a token, a confirm   *)
(* claims the staged file, imports a private snapshot and removes it; and  *)
(* the one-request import of a JSON package beside it.                     *)
(*                                                                         *)
(* All requests are of one actor and one project.  They run concurrently   *)
(* in threads and processes, so a step here is what one request does       *)
(* between two moments at which another can be seen.  A lock is a file: an *)
(* inode that a name leads to until the name is removed, held by at most   *)
(* one request that opened it.  An inode is named after the request that   *)
(* created it.                                                             *)
(***************************************************************************)
EXTENDS GpkgPreflight, DesignPackage, FiniteSetsExt

CONSTANTS
    Uploads,        \* preview requests, and the staging ids they create
    Confirms,       \* confirm requests
    JsonUploads,    \* import-json requests
    Codes,          \* package codes
    Contents,       \* function: digest -> GeoPackage record
    JsonFiles,      \* function: digest -> JSON package record
    MaxPending,     \* DEFAULT_MAX_PENDING_PER_ACTOR
    MaxPendingBytes,
    MaxScan,        \* DEFAULT_MAX_SCAN_ENTRIES: directory entries one count may look at
    MaxOthers,      \* bound on the entries of other actors in the project's staging directory
    MaxJsonBytes,
    MaxFaults,      \* bound on crashes, failed calls, expiries and overwritten files
    OneWriter       \* the database lets one transaction write at a time

ASSUME ImportAssumption ==
    /\ IsFiniteSet(Uploads) /\ "quota" \notin Uploads
    /\ \A d \in DOMAIN Contents : Contents[d].bytes \in Nat
    /\ MaxPending \in Nat \ {0} /\ MaxPendingBytes \in Nat
    /\ MaxScan \in Nat /\ MaxOthers \in Nat /\ MaxFaults \in Nat
    /\ OneWriter \in BOOLEAN
    /\ Uploads \cap Confirms = {}

VARIABLES
    upload,      \* preview requests: [pc, code, digest, handle, old]
    files,       \* files[u]: which of "partial" and "meta" lie beside staging id u
    bytes,       \* bytes[u]: the digest of u's .gpkg file, no element if there is none
    confirm,     \* confirm requests: [pc, of, code, handle, snapshot, row, result]
    named,       \* the inode a lock file's name leads to: "quota" and one per staging id
    oldLocks,    \* lock files older than the TTL
    slipped,     \* how the quota slipped: its "lock" was removed under a request that had it
                 \* open; a "scan" ended too early, or a "read" failed, to see that it was full
    litter,      \* staging ids of which a file stayed because removing it failed
    packages,    \* committed rows: [code, digest, objects, source]
    json,        \* import-json requests: how far they are, and their digest
    jsonFiles,   \* the files under design-packages/<project>, by digest
    faults       \* how many of them there have been

vars == <<upload, files, bytes, confirm, named, oldLocks, slipped, litter, packages, json,
          jsonFiles, faults>>

Locks == {"quota"} \cup Uploads
Digests == DOMAIN Contents

NoUpload == [pc |-> "start", code |-> "none", digest |-> "none", handle |-> {}, old |-> FALSE]
NoConfirm == [pc |-> "start", of |-> "none", code |-> "none", handle |-> {}, snapshot |-> {},
              row |-> {}, result |-> "none"]
NoJson == <<"waiting", "none">>

Init ==
    /\ upload = [u \in Uploads |-> NoUpload]
    /\ files = [u \in Uploads |-> {}]
    /\ bytes = [u \in Uploads |-> {}]
    /\ confirm = [c \in Confirms |-> NoConfirm]
    /\ named = [l \in Locks |-> {}]
    /\ oldLocks = {}
    /\ slipped = {}
    /\ litter = {}
    /\ packages = {}
    /\ json = [j \in JsonUploads |-> NoJson]
    /\ jsonFiles = {}
    /\ faults = 0

-----------------------------------------------------------------------------
HandleOf(r) == IF r \in Uploads THEN upload[r].handle ELSE confirm[r].handle

\* Requests that hold the lock they have opened.
Counting == {u \in Uploads : upload[u].pc \in {"writing", "describing"}}
Claiming == {c \in Confirms : confirm[c].pc \in
                {"claimed", "importing", "inserting", "cleaning", "releasing"}}
Holders(inode) == {r \in Counting \cup Claiming : HandleOf(r) = inode}

\* open("a+b"): the inode the name leads to, a new one if there is none.
Opened(lock, r) == IF named[lock] = {} THEN {r} ELSE named[lock]

\* What inspecting and normalising each file yields.
Sound == [d \in Digests |-> Normalizes(Contents[d])]
Objects == [d \in Digests |-> ObjectCodes(Contents[d])]

MoveUpload(u, pc) == upload' = [upload EXCEPT ![u].pc = pc]
MoveConfirm(c, pc) == confirm' = [confirm EXCEPT ![c].pc = pc]
Refuse(c, pc, result) == confirm' = [confirm EXCEPT ![c] = [@ EXCEPT !.pc = pc, !.result = result]]

Locking == <<named, oldLocks, slipped, litter>>
Staging == <<files, bytes, Locking>>
Records == <<packages, json, jsonFiles>>

Faults(n) == faults + n <= MaxFaults /\ faults' = faults + n
Fault == Faults(1)

Unlink(lock) ==
    /\ named' = [named EXCEPT ![lock] = {}]
    /\ oldLocks' = oldLocks \ {lock}

\* Every failing unlink is passed over, and the file stays.
LeavesLitter(u) == Fault /\ litter' = litter \cup {u}

\* cleanup_staging: the bytes, the description and the claim lock's name.
CleanUpStaged(u) ==
    \E kept \in SUBSET {"bytes", "meta", "lock"} :
        /\ IF "bytes" \in kept THEN UNCHANGED bytes ELSE bytes' = [bytes EXCEPT ![u] = {}]
        /\ IF "meta" \in kept THEN UNCHANGED files ELSE files' = [files EXCEPT ![u] = @ \ {"meta"}]
        /\ IF "lock" \in kept THEN UNCHANGED <<named, oldLocks>> ELSE Unlink(u)
        /\ Faults(Cardinality(kept))
        /\ litter' = IF kept = {} THEN litter ELSE litter \cup {u}

-----------------------------------------------------------------------------
(***************************************************************************)
(* Purge.  Both requests first remove what is older than the TTL, entry by *)
(* entry, within a budget of directory entries and without taking a lock.  *)
(***************************************************************************)
Purging == \/ \E u \in Uploads : upload[u].pc = "purging"
           \/ \E c \in Confirms : confirm[c].pc = "purging"

PurgeStaged(u) ==
    /\ Purging
    /\ bytes[u] # {} /\ upload[u].old
    /\ CleanUpStaged(u)
    /\ UNCHANGED <<upload, confirm, slipped, Records>>

PurgeLock(l) ==
    /\ Purging
    /\ l \in oldLocks
    /\ Unlink(l)
    /\ slipped' = IF l = "quota" /\ \E u \in Uploads : upload[u].handle = named[l]
                  THEN slipped \cup {"lock"} ELSE slipped
    /\ UNCHANGED <<upload, files, bytes, confirm, litter, Records, faults>>

\* The snapshot a request left behind is a .gpkg file like any other.
PurgeSnapshot(c) ==
    /\ Purging
    /\ confirm[c].pc \in {"done", "crashed"} /\ confirm[c].snapshot # {}
    /\ confirm' = [confirm EXCEPT ![c].snapshot = {}]
    /\ UNCHANGED <<upload, Staging, Records, faults>>

-----------------------------------------------------------------------------
(***************************************************************************)
(* Preview                                                                 *)
(***************************************************************************)
BeginPreview(u) ==
    /\ upload[u].pc = "start"
    /\ \E code \in Codes, d \in Digests :
        /\ Contents[d].bytes \in 1 .. Limits.bytes
        /\ upload' = [upload EXCEPT ![u] = [@ EXCEPT !.pc = "purging", !.code = code, !.digest = d]]
    /\ UNCHANGED <<confirm, Staging, Records, faults>>

OpenQuota(u) ==
    /\ upload[u].pc = "purging"
    /\ upload' = [upload EXCEPT ![u] = [@ EXCEPT !.pc = "waiting", !.handle = Opened("quota", u)]]
    /\ named' = [named EXCEPT !["quota"] = Opened("quota", u)]
    /\ UNCHANGED <<files, bytes, confirm, oldLocks, slipped, litter, Records, faults>>

\* _actor_pending_usage: only a file with its description is counted.
Pending == {u \in Uploads : bytes[u] # {} /\ "meta" \in files[u]}
BytesOf(us) == SumFunction([u \in Uploads |->
    IF u \in us THEN Contents[CHOOSE d \in bytes[u] : TRUE].bytes ELSE 0])
PendingBytes == BytesOf(Pending)

\* What all entries of the directory are, but for other actors'.
Entries == Cardinality({e \in Uploads \X {"partial", "meta"} : e[2] \in files[e[1]]})
           + Cardinality({u \in Uploads : bytes[u] # {}})
           + Cardinality({l \in Locks : named[l] # {}})
           + Cardinality({c \in Confirms : confirm[c].snapshot # {}})

\* The scan stops after MaxScan entries, in no particular order and whosever
\* and whatever they are.
ScanMeets(seen) ==
    /\ Cardinality(seen) <= MaxScan
    /\ seen # Pending => Cardinality(Pending \ seen) + MaxScan <= Entries + MaxOthers

Room(u, seen, sized) ==
    /\ Cardinality(seen) < MaxPending
    /\ BytesOf(sized) + Contents[upload[u].digest].bytes <= MaxPendingBytes

\* Which uploads are counted, and which with their size.  What cannot be read,
\* a description, a size or the directory, is taken for nothing there.
Counts(u, seen, sized) ==
    \E how \in {"scan", "read"} :
        /\ IF how = "scan" THEN sized = seen /\ ScanMeets(seen) /\ UNCHANGED faults
                           ELSE sized # Pending /\ Fault
        /\ slipped' = IF Room(u, seen, sized) /\ ~Room(u, Pending, Pending)
                      THEN slipped \cup {how} ELSE slipped

\* Leaving the critical section closes the handle; the lock file stays.
LeaveQuota(u, pc) == upload' = [upload EXCEPT ![u] = [@ EXCEPT !.pc = pc, !.handle = {}]]

(* Mutant: the quota is checked without waiting for the lock. *)
EnterQuotaAtOnce(u) ==
    /\ upload[u].pc = "waiting"
    /\ Room(u, Pending, Pending)
    /\ MoveUpload(u, "writing")
    /\ files' = [files EXCEPT ![u] = {"partial"}]
    /\ UNCHANGED <<bytes, confirm, Locking, Records, faults>>

\* A blocking lock: the request waits for whoever has the same inode.  It
\* counts and starts a partial file, which is renamed once it is complete;
\* the description follows.
EnterQuota(u) ==
    /\ upload[u].pc = "waiting"
    /\ Holders(upload[u].handle) = {}
    /\ \E seen \in SUBSET Pending : \E sized \in SUBSET seen :
        /\ Counts(u, seen, sized)
        /\ IF Room(u, seen, sized) THEN /\ MoveUpload(u, "writing")
                                        /\ files' = [files EXCEPT ![u] = {"partial"}]
                                   ELSE LeaveQuota(u, "refused") /\ UNCHANGED files
    /\ UNCHANGED <<bytes, confirm, named, oldLocks, litter, Records>>

RenamePartial(u) ==
    /\ upload[u].pc = "writing"
    /\ files' = [files EXCEPT ![u] = {}]
    /\ bytes' = [bytes EXCEPT ![u] = {upload[u].digest}]
    /\ MoveUpload(u, "describing")
    /\ UNCHANGED <<confirm, Locking, Records, faults>>

Describe(u) ==
    /\ upload[u].pc = "describing"
    /\ files' = [files EXCEPT ![u] = {"meta"}]
    /\ LeaveQuota(u, "inspecting")
    /\ UNCHANGED <<bytes, confirm, Locking, Records, faults>>

\* Writing fails: what there is of this upload is removed, unless that fails too.
WriteFails(u) ==
    /\ upload[u].pc \in {"writing", "describing"}
    /\ LeaveQuota(u, "refused")
    /\ \/ /\ files' = [files EXCEPT ![u] = {}]
          /\ bytes' = [bytes EXCEPT ![u] = {}]
          /\ Unlink(u)
          /\ UNCHANGED <<litter, faults>>
       \/ /\ LeavesLitter(u)
          /\ UNCHANGED <<files, bytes, named, oldLocks>>
    /\ UNCHANGED <<confirm, slipped, Records>>

\* Preflight and normalisation of the staged file; the token names its digest.
Inspect(u) ==
    /\ upload[u].pc = "inspecting"
    /\ IF \E d \in bytes[u] : Sound[d]
       THEN /\ upload' = [upload EXCEPT ![u] = [@ EXCEPT !.pc = "previewed",
                                                        !.digest = CHOOSE d \in bytes[u] : TRUE]]
            /\ UNCHANGED <<Staging, faults>>
       ELSE /\ MoveUpload(u, "refused")
            /\ CleanUpStaged(u)
            /\ UNCHANGED slipped
    /\ UNCHANGED <<confirm, Records>>

-----------------------------------------------------------------------------
(***************************************************************************)
(* Confirm                                                                 *)
(***************************************************************************)
BeginConfirm(c) ==
    /\ confirm[c].pc = "start"
    /\ \E u \in Uploads, code \in Codes :
        /\ upload[u].pc = "previewed"
        /\ confirm' = [confirm EXCEPT ![c] = [@ EXCEPT !.pc = "purging", !.of = u, !.code = code]]
    /\ UNCHANGED <<upload, Staging, Records, faults>>

\* Signature, expiry, the fields the token binds, and the file's presence.  A
\* token outlives the TTL of its file by the time the preview took.
VerifyToken(c) ==
    LET u == confirm[c].of IN
    /\ confirm[c].pc = "purging"
    /\ \/ /\ confirm[c].code = upload[u].code /\ bytes[u] # {}
          /\ MoveConfirm(c, "opening")
       \/ /\ confirm[c].code # upload[u].code \/ upload[u].old \/ bytes[u] = {}
          /\ Refuse(c, "done", "token")
    /\ UNCHANGED <<upload, Staging, Records, faults>>

OpenClaim(c) ==
    LET u == confirm[c].of IN
    /\ confirm[c].pc = "opening"
    /\ confirm' = [confirm EXCEPT ![c] = [@ EXCEPT !.pc = "claiming", !.handle = Opened(u, c)]]
    /\ named' = [named EXCEPT ![u] = Opened(u, c)]
    /\ UNCHANGED <<upload, files, bytes, oldLocks, slipped, litter, Records, faults>>

\* The lock is tried once.  Whoever finds it busy leaves as every request
\* leaves, and takes the name of the lock file along (UnlinkClaim).
Claim(c) ==
    /\ confirm[c].pc = "claiming"
    /\ IF Holders(confirm[c].handle) # {}
       THEN confirm' = [confirm EXCEPT ![c] = [@ EXCEPT !.pc = "unlinking", !.handle = {},
                                                       !.result = "in_progress"]]
       ELSE IF bytes[confirm[c].of] = {} THEN Refuse(c, "releasing", "already_completed")
       ELSE MoveConfirm(c, "claimed")
    /\ UNCHANGED <<upload, Staging, Records, faults>>

(* Mutant: the snapshot is taken for what was previewed. *)
MatchesToken(c) == bytes[confirm[c].of] # {}

Matches(c) == bytes[confirm[c].of] = {upload[confirm[c].of].digest}

TakeSnapshot(c) ==
    /\ confirm[c].pc = "claimed"
    /\ IF Matches(c)
       THEN confirm' = [confirm EXCEPT ![c] = [@ EXCEPT !.pc = "importing",
                                                       !.snapshot = bytes[confirm[c].of]]]
       ELSE Refuse(c, "releasing", "mismatch")
    /\ UNCHANGED <<upload, Staging, Records, faults>>

\* Writing the snapshot or reading it again fails.  The caller was given no
\* name to remove, so what was written of it stays.
SnapshotFails(c) ==
    /\ confirm[c].pc = "claimed" /\ Matches(c)
    /\ Fault
    /\ confirm' = [confirm EXCEPT ![c] = [@ EXCEPT !.pc = "releasing", !.result = "unwritten",
                                                   !.snapshot = bytes[confirm[c].of]]]
    /\ UNCHANGED <<upload, Staging, Records>>

\* Normalising the snapshot fails: such an upload is not to be tried again.
RejectSnapshot(c) ==
    /\ confirm[c].pc = "importing"
    /\ Refuse(c, "releasing", "rejected")
    /\ CleanUpStaged(confirm[c].of)
    /\ UNCHANGED <<upload, slipped, Records>>

RowOf(code, digest) ==
    [code |-> code, digest |-> digest, objects |-> Objects[digest], source |-> "gpkg"]

\* The idempotency key has no package code in it.
Known(row) == {p \in packages : p.digest = row.digest /\ p.source = "gpkg"}

\* What the import reads before it writes; nothing keeps these answers true.
\* Its three queries are one step here.  Packages are only ever added, so a
\* request that another one passes between them ends as one that read all three
\* at one moment: a later hit is an earlier one, or Insert's collision.
LookUp(c) ==
    \E d \in confirm[c].snapshot :
        LET row == RowOf(confirm[c].code, d) IN
        /\ confirm[c].pc = "importing"
        /\ IF Known(row) # {} THEN MoveConfirm(c, "inserting")
           ELSE IF \/ \E p \in packages : p.code = row.code /\ p.digest # row.digest
                   \/ \E p \in packages : p.objects \cap row.objects # {}
           THEN Refuse(c, "releasing", "conflict")
           ELSE confirm' = [confirm EXCEPT ![c] = [@ EXCEPT !.pc = "inserting", !.row = {row}]]
        /\ UNCHANGED <<upload, Staging, Records, faults>>

\* uq_design_package_idempotency and the unique object codes of a project.
Collide(p, q) ==
    \/ p.digest = q.digest /\ p.source = q.source
    \/ p.objects \cap q.objects # {}

\* Transactions that have written and not ended.
Writers == {c \in Confirms : confirm[c].result = "written"}
\* An insert waits for the one writer, or for a writer of the same key.
MayWrite(rows) ==
    /\ OneWriter => Writers = {}
    /\ \A w \in Writers : \A p \in confirm[w].row, q \in rows : ~Collide(p, q)
Collides(rows) == \E p \in packages, q \in rows : Collide(p, q)

\* The rows and the audit event; of a known package only the event.
Insert(c) ==
    /\ confirm[c].pc = "inserting"
    /\ MayWrite(confirm[c].row)
    /\ IF Collides(confirm[c].row)
       THEN confirm' = [confirm EXCEPT ![c] = [@ EXCEPT !.pc = "releasing", !.row = {},
                                                       !.result = "conflict"]]
       ELSE Refuse(c, "cleaning", "written")
    /\ UNCHANGED <<upload, Staging, Records, faults>>

\* The snapshot is removed here and, if that fails, once more in the finally
\* clause: both are Release's.
CleanUp(c) ==
    /\ confirm[c].pc = "cleaning"
    /\ MoveConfirm(c, "releasing")
    /\ CleanUpStaged(confirm[c].of)
    /\ UNCHANGED <<upload, slipped, Records>>

Leaving(c, snapshot) ==
    confirm' = [confirm EXCEPT ![c] = [@ EXCEPT !.pc = "unlinking", !.handle = {},
                                                !.snapshot = snapshot]]

\* The finally clause: the snapshot it knows of is removed, the lock let go.
Release(c) ==
    /\ confirm[c].pc = "releasing"
    /\ \/ /\ Leaving(c, IF confirm[c].result = "unwritten" THEN confirm[c].snapshot ELSE {})
          /\ UNCHANGED <<litter, faults>>
       \/ /\ confirm[c].result # "unwritten" /\ confirm[c].snapshot # {}
          /\ Leaving(c, confirm[c].snapshot)
          /\ LeavesLitter(confirm[c].of)
    /\ UNCHANGED <<upload, files, bytes, named, oldLocks, slipped, Records>>

(* Mutant: a request that could not claim the upload tidies it away. *)
UnlinkClaimTidy(c) ==
    /\ confirm[c].pc = "unlinking"
    /\ MoveConfirm(c, IF confirm[c].result = "written" THEN "committing" ELSE "done")
    /\ CleanUpStaged(confirm[c].of)
    /\ UNCHANGED <<upload, slipped, Records>>

UnlinkClaim(c) ==
    /\ confirm[c].pc = "unlinking"
    /\ MoveConfirm(c, IF confirm[c].result = "written" THEN "committing" ELSE "done")
    /\ \/ Unlink(confirm[c].of) /\ UNCHANGED <<litter, faults>>
       \/ LeavesLitter(confirm[c].of) /\ UNCHANGED <<named, oldLocks>>
    /\ UNCHANGED <<upload, files, bytes, slipped, Records>>

\* The route commits when the staged upload is long gone.
Commit(c) ==
    /\ confirm[c].pc = "committing"
    /\ packages' = packages \cup confirm[c].row
    /\ confirm' = [confirm EXCEPT ![c] = [@ EXCEPT !.pc = "done", !.result = "imported"]]
    /\ UNCHANGED <<upload, Staging, json, jsonFiles, faults>>

CommitFails(c) ==
    /\ confirm[c].pc = "committing"
    /\ Fault
    /\ confirm' = [confirm EXCEPT ![c] = [@ EXCEPT !.pc = "done", !.row = {}, !.result = "lost"]]
    /\ UNCHANGED <<upload, Staging, Records>>

-----------------------------------------------------------------------------
(***************************************************************************)
(* import-json.  The file is written before anything is looked up, under   *)
(* the name of its bytes and of the client's file, so sending a file again *)
(* writes the same path.  Of the database the route needs one step: its    *)
(* rows exist for others from the commit on, and until then whoever would  *)
(* write the same keys waits.                                              *)
(***************************************************************************)
JsonRow == [d \in DOMAIN JsonFiles |->
    [code |-> JsonFiles[d].code, digest |-> d, objects |-> {o.code : o \in JsonObjects(JsonFiles[d])},
     source |-> "json"]]

\* Which files the route and the importer let through.
UploadRefused == [d \in DOMAIN JsonFiles |-> UploadIssues(JsonFiles[d], MaxJsonBytes) # {}]
ImportRefused == [d \in DOMAIN JsonFiles |-> JsonIssues(JsonFiles[d], TRUE) # {}]

MoveJson(j, pc) == json' = [json EXCEPT ![j] = <<pc, @[2]>>]

ReceiveJson(j, digest) ==
    /\ json[j][1] = "waiting"
    /\ ~UploadRefused[digest]
    /\ json' = [json EXCEPT ![j] = <<"stored", digest>>]
    /\ jsonFiles' = jsonFiles \cup {digest}
    /\ UNCHANGED <<upload, confirm, Staging, packages, faults>>

ImportJson(j) ==
    LET digest == json[j][2] IN
    /\ json[j][1] = "stored"
    /\ ~ImportRefused[digest]
    /\ MayWrite({JsonRow[digest]}) /\ ~Collides({JsonRow[digest]})
    /\ MoveJson(j, "imported")
    /\ packages' = packages \cup {JsonRow[digest]}
    /\ UNCHANGED <<upload, confirm, Staging, jsonFiles, faults>>

\* Whatever goes wrong, the importer's refusal, a collision or a failing write
\* or commit, the route rolls back and removes the file.
RefuseJson(j) ==
    /\ json[j][1] = "stored"
    /\ json' = [json EXCEPT ![j] = NoJson]
    /\ jsonFiles' = jsonFiles \ {json[j][2]}
    /\ UNCHANGED <<upload, confirm, Staging, packages, faults>>

\* The process dies before the commit, or cannot remove the file after it failed.
CrashJson(j) ==
    /\ json[j][1] = "stored"
    /\ Fault
    /\ MoveJson(j, "crashed")
    /\ UNCHANGED <<upload, confirm, Staging, packages, jsonFiles>>

-----------------------------------------------------------------------------
(***************************************************************************)
(* The environment: a process dies, the TTL passes for a file, a staged    *)
(* file is overwritten from outside with as many bytes.  Requests are much *)
(* shorter than the TTL, so what an upload in its critical section writes  *)
(* is not yet old.                                                         *)
(***************************************************************************)
UploadDone == {"refused", "previewed", "crashed"}

CrashUpload(u) ==
    /\ upload[u].pc \notin {"start", "refused", "previewed", "crashed"}
    /\ Fault
    /\ LeaveQuota(u, "crashed")
    /\ UNCHANGED <<confirm, Staging, Records>>

CrashConfirm(c) ==
    /\ confirm[c].pc \notin {"start", "done", "crashed"}
    /\ Fault
    /\ confirm' = [confirm EXCEPT ![c] = [@ EXCEPT !.pc = "crashed", !.handle = {}, !.row = {},
                                                    !.result = "crashed"]]
    /\ UNCHANGED <<upload, Staging, Records>>

Expire(u) ==
    /\ upload[u].pc \in {"inspecting"} \cup UploadDone /\ bytes[u] # {} /\ ~upload[u].old
    /\ Fault
    /\ upload' = [upload EXCEPT ![u].old = TRUE]
    /\ UNCHANGED <<confirm, Staging, Records>>

ExpireLock(l) ==
    /\ named[l] # {} /\ l \notin oldLocks
    /\ l \in Uploads => upload[l].old
    /\ Fault
    /\ oldLocks' = oldLocks \cup {l}
    /\ UNCHANGED <<upload, confirm, files, bytes, named, slipped, litter, Records>>

Tamper(u) ==
    /\ \E d \in bytes[u] : \E e \in Digests \ {d} :
        /\ Contents[d].bytes = Contents[e].bytes
        /\ bytes' = [bytes EXCEPT ![u] = {e}]
    /\ Fault
    /\ UNCHANGED <<upload, confirm, files, Locking, Records>>

UploadStep(u) ==
    OpenQuota(u) \/ EnterQuota(u) \/ RenamePartial(u) \/ Describe(u) \/ Inspect(u)

ConfirmStep(c) ==
    \/ VerifyToken(c) \/ OpenClaim(c) \/ Claim(c) \/ TakeSnapshot(c) \/ LookUp(c)
    \/ Insert(c) \/ CleanUp(c) \/ Release(c) \/ UnlinkClaim(c) \/ Commit(c)

Next ==
    \/ \E u \in Uploads :
        \/ BeginPreview(u) \/ UploadStep(u) \/ WriteFails(u) \/ CrashUpload(u)
        \/ PurgeStaged(u) \/ Expire(u) \/ Tamper(u)
    \/ \E c \in Confirms :
        \/ BeginConfirm(c) \/ ConfirmStep(c) \/ SnapshotFails(c) \/ RejectSnapshot(c)
        \/ CommitFails(c)
        \/ CrashConfirm(c) \/ PurgeSnapshot(c)
    \/ \E l \in Locks : PurgeLock(l) \/ ExpireLock(l)
    \/ \E j \in JsonUploads :
        \/ \E d \in DOMAIN JsonFiles : ReceiveJson(j, d)
        \/ ImportJson(j) \/ RefuseJson(j) \/ CrashJson(j)

Spec == Init /\ [][Next]_vars

-----------------------------------------------------------------------------
ConfirmDone == {"done", "crashed"}

RowType == [code : Codes \cup {JsonFiles[d].code : d \in DOMAIN JsonFiles},
            digest : Digests \cup DOMAIN JsonFiles,
            objects : SUBSET UNION ({Objects[d] : d \in Digests}
                                    \cup {JsonRow[d].objects : d \in DOMAIN JsonFiles}),
            source : {"gpkg", "json"}]

\* The types of the variables; a handle is held exactly between opening and leaving.
TypeOK ==
    /\ \A u \in Uploads :
        /\ upload[u].pc \in UploadDone \cup
              {"start", "purging", "waiting", "writing", "describing", "inspecting"}
        /\ (upload[u].handle # {}) =
              (upload[u].pc \in {"waiting", "writing", "describing"})
    /\ \A c \in Confirms :
        /\ confirm[c].pc \in ConfirmDone \cup
              {"start", "purging", "opening", "claiming", "claimed", "importing", "inserting",
               "cleaning", "releasing", "unlinking", "committing"}
        /\ (confirm[c].handle # {}) =
              (confirm[c].pc \in {"claiming", "claimed", "importing", "inserting", "cleaning",
                                  "releasing"})
        /\ confirm[c].result = "written" => confirm[c].pc \in
              {"cleaning", "releasing", "unlinking", "committing"}
    /\ \A u \in Uploads : files[u] \in SUBSET {"partial", "meta"}
    /\ \A u \in Uploads : bytes[u] \in SUBSET Digests /\ Cardinality(bytes[u]) <= 1
    /\ \A l \in Locks : Cardinality(named[l]) <= 1 /\ (l \in oldLocks => named[l] # {})
    /\ packages \subseteq RowType
    /\ \A j \in JsonUploads :
        json[j][1] \in {"waiting", "stored", "imported", "crashed"}

\* What a package records is what its uploader was shown: bytes that passed
\* both inspections, under the code of that preview, and no other objects -
\* whatever happens to the staged file between the two requests.
ImportedAsPreviewed ==
    \A p \in packages : p.source = "gpkg" =>
        /\ \E u \in Uploads : /\ upload[u].pc = "previewed"
                              /\ upload[u].digest = p.digest /\ upload[u].code = p.code
        /\ Sound[p.digest] /\ p.objects = Objects[p.digest]

\* However the confirms of one upload, or of two uploads with the same bytes
\* or objects, overlap: no bytes and no object are in two packages, and a
\* confirm that succeeds finds its bytes imported.
ImportedOnce ==
    /\ \A p, q \in packages : p # q =>
        /\ p.source = q.source => p.digest # q.digest
        /\ p.objects \cap q.objects = {}
    /\ \A c \in Confirms : confirm[c].result = "imported" =>
        \E p \in packages : p.source = "gpkg" /\ p.digest = upload[confirm[c].of].digest

\* Between a preview and the package nothing is mixed up and nothing doubled.
PackagesAreWhatWasShown == TypeOK /\ ImportedAsPreviewed /\ ImportedOnce

\* Several previews of one actor never exceed the quota, however they
\* overlap, but for three ways the code leaves open: the purge of one of them
\* removed the quota lock under another (the lock file keeps the age of its
\* creation), or one was let in because the directory had more entries than a
\* scan looks at, or because something in it could not be read.
PendingWithinQuota ==
    \/ Cardinality(Pending) <= MaxPending /\ PendingBytes <= MaxPendingBytes
    \/ slipped # {}

\* An upload that was previewed stays until it is older than the TTL or is
\* imported.  It is lost to its owner only where normalising it fails at the
\* end, the commit fails after the clean-up, or the process dies.
NoUploadIsLost ==
    \A u \in Uploads :
        upload[u].pc = "previewed" /\ bytes[u] = {} /\ ~upload[u].old =>
            \/ \E p \in packages : p.source = "gpkg" /\ p.digest = upload[u].digest
            \/ \E c \in Confirms : /\ confirm[c].of = u
                                  /\ confirm[c].result \in {"written", "rejected", "lost", "crashed"}

\* When nothing runs and nothing died, the staging directory holds complete
\* uploads and nothing else: no partial file, no description without bytes, no
\* claim lock, no snapshot; and a stored JSON file has its package.  What stays
\* behind is what an unlink failed to remove, a snapshot whose writing failed,
\* and the JSON file of a request that died before its commit.
QuietMeansClean ==
    /\ \A d \in jsonFiles : \/ \E p \in packages : p.source = "json" /\ p.digest = d
                            \/ \E j \in JsonUploads : json[j] \in {"stored", "crashed"} \X {d}
    /\ (/\ \A u \in Uploads : upload[u].pc \in {"start", "refused", "previewed"}
        /\ \A c \in Confirms : confirm[c].pc \in {"start", "done"}) =>
            /\ \A u \in Uploads \ litter : /\ files[u] = IF bytes[u] = {} THEN {} ELSE {"meta"}
                                           /\ named[u] = {}
            /\ \A c \in Confirms : confirm[c].snapshot # {} =>
                confirm[c].result = "unwritten" \/ confirm[c].of \in litter

\* The staging directory keeps what an owner is still owed and nothing else.
StagingKeepsWhatItOwes == NoUploadIsLost /\ QuietMeansClean

\* "exclusive claim" (gpkg_staging.py:7): one confirm at a time works on an
\* upload.  A confirm that finds the lock busy removes the lock file's name,
\* and the next one locks a new file.
ExclusiveClaim ==
    \A c, d \in Claiming \ {e \in Confirms : confirm[e].pc = "releasing"} :
        c # d => confirm[c].of # confirm[d].of
=============================================================================
