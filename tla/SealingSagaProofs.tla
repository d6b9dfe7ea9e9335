--------------------------- MODULE SealingSagaProofs ---------------------------
(***************************************************************************)
(* Theorems about SealingSaga, for any jobs, sessions and faults, with     *)
(* files meddled with or not.                                              *)
(*                                                                         *)
(* Sessions hold copies of rows that others have written since, so nothing *)
(* is proved from what a state is when it is written, only from what it    *)
(* once meant: files that were published stay published and a ledger row   *)
(* keeps its place, and a copy of a row can only be late, never wrong,     *)
(* about either.  The ledger's lock makes what a session read of the       *)
(* ledger still true when it replaces the file.                            *)
(*                                                                         *)
(* Two properties need more: the runs show that a late copy may be written *)
(* over what another session completed.  They are proved of the behaviours *)
(* in which no two sessions are on the same job at the same time.          *)
(***************************************************************************)
EXTENDS SealingSaga, TLAPS

\* The states of an operation whose files were published.
Late == {"files_published", "ledger_appended", "completed"}
Writing == {"ledger", "appending", "recorded", "completing"}

Own(j, i) == i \in DOMAIN ledger /\ ledger[i] = j

\* What a session remembers, and how far it is, was true once and still is.
SessionFits(s) ==
    /\ sess[s].pc # "idle" => sess[s].job \in Jobs
    /\ sess[s].snap.row # 0 => Own(sess[s].job, sess[s].snap.row)
    /\ sess[s].snap.state \in Late \/ sess[s].pc \in Writing => published[sess[s].job] = AllFiles
    /\ sess[s].pc = "moving" => \A i \in 1 .. sess[s].n : Files[i] \in published[sess[s].job]
    /\ sess[s].pc = "appending" => sess[s].view = ledger

\* What the row of an operation says was true once and still is.
OperationFits(j) ==
    /\ oper[j].row # 0 => Own(j, oper[j].row)
    /\ oper[j].state \in Late => published[j] = AllFiles

Sealed(j) ==
    job[j] = "approved" => published[j] = AllFiles /\ RowsOf(ledger, j) # {} /\ j \in rows

LedgerLocked ==
    \A s, t \in Sessions : sess[s].pc = "appending" /\ sess[t].pc = "appending" => s = t

SagaInv ==
    /\ TypeOK
    /\ \A s \in Sessions : SessionFits(s)
    /\ \A j \in Jobs : OperationFits(j) /\ Sealed(j)
    /\ LedgerLocked
    /\ OneLedgerRowPerArchive /\ LedgerOnlyNamesPublished

-----------------------------------------------------------------------------
(* The initial states.                                                     *)
LEMMA InitInv == Init => SagaInv
<1> SUFFICES ASSUME Init PROVE SagaInv
  OBVIOUS
<1>1. TypeOK
  BY SagaAssumption DEF Init, TypeOK, OperType, SessType, NoOperation, Idle, Files, JobStates,
     OperStates,
     Resumable, Pcs, Locked
<1>2. \A s \in Sessions : SessionFits(s)
  BY DEF Init, SessionFits, Idle, NoOperation, Late, Writing
<1>3. \A j \in Jobs : OperationFits(j) /\ Sealed(j)
  BY DEF Init, OperationFits, Sealed, NoOperation, Late
<1>4. LedgerLocked /\ OneLedgerRowPerArchive /\ LedgerOnlyNamesPublished
  BY DEF Init, LedgerLocked, Idle, OneLedgerRowPerArchive, LedgerOnlyNamesPublished
<1> QED BY <1>1, <1>2, <1>3, <1>4 DEF SagaInv

(* There are three files.                                                  *)
LEMMA ThreeFiles ==
    /\ Len(Files) = 3
    /\ Files[1] = "json" /\ Files[2] = "html" /\ Files[3] = "zip"
    /\ \A i \in 1 .. 3 : Files[i] \in AllFiles
    /\ AllFiles = {Files[1], Files[2], Files[3]}
  BY DEF Files, AllFiles

(* The records of the module have their types.                             *)
LEMMA NothingTyped == NoOperation \in OperType /\ Idle \in SessType
<1>1. NoOperation \in OperType
  BY DEF NoOperation, OperType, OperStates
<1> QED BY <1>1, ThreeFiles DEF Idle, SessType, Pcs

(* A session that goes on keeps its type.                                  *)
LEMMA GoToTyped ==
    ASSUME TypeOK, NEW s \in Sessions, NEW pc \in Pcs, GoTo(s, pc)
    PROVE  sess' \in [Sessions -> SessType]
<1>1. sess[s] \in SessType
  BY DEF TypeOK
<1>2. [sess[s] EXCEPT !.pc = pc, !.n = 0] \in SessType
  <2>1. 0 \in 0 .. Len(Files)
    BY ThreeFiles
  <2> QED BY <1>1, <2>1 DEF SessType
<1>3. sess' = [sess EXCEPT ![s] = [sess[s] EXCEPT !.pc = pc, !.n = 0]]
  BY <1>1 DEF GoTo, TypeOK, SessType
<1> QED BY <1>2, <1>3 DEF TypeOK

\* A step that leaves the published files and the ledger alone.
Still == published' = published /\ ledger' = ledger

OthersStay(s) == \A t \in Sessions \ {s} : sess'[t] = sess[t]

(* A still step of session s keeps the invariant when what it writes fits. *)
LEMMA StillStep ==
    ASSUME SagaInv, NEW s \in Sessions, TypeOK', Still, OthersStay(s), SessionFits(s)',
           sess'[s].pc = "appending" => LedgerFree,
           \A j \in Jobs : OperationFits(j)' /\ Sealed(j)'
    PROVE  SagaInv'
<1>1. \A t \in Sessions \ {s} : SessionFits(t)'
  BY DEF SagaInv, Still, OthersStay, SessionFits, Own
<1>2. LedgerLocked'
  BY DEF SagaInv, OthersStay, LedgerLocked, LedgerFree
<1>3. OneLedgerRowPerArchive' /\ LedgerOnlyNamesPublished'
  BY DEF SagaInv, Still, OneLedgerRowPerArchive, LedgerOnlyNamesPublished
<1> QED BY <1>1, <1>2, <1>3 DEF SagaInv

(* Rows that are not written go on fitting.                                *)
LEMMA RowsStay ==
    ASSUME SagaInv, Still, UNCHANGED dbVars
    PROVE  \A j \in Jobs : OperationFits(j)' /\ Sealed(j)'
  BY DEF SagaInv, Still, dbVars, OperationFits, Sealed, Own, RowsOf

(* A file is staged.                                                       *)
LEMMA StageFileInv ==
    ASSUME SagaInv, NEW s \in Sessions, StageFile(s) PROVE SagaInv' /\ Still
<1> USE DEF StageFile, At, Finish, Fault, dbVars, fileVars, outside
<1>1. Still /\ OthersStay(s) /\ UNCHANGED dbVars
  BY DEF SagaInv, TypeOK, Still, OthersStay, GoTo
<1>2. TypeOK'
  <2>1. sess[s] \in SessType
    BY DEF SagaInv, TypeOK
  <2>2. sess[s].n + 1 \in 0 .. Len(Files)
    BY <2>1, ThreeFiles DEF SessType
  <2>3. [sess[s] EXCEPT !.n = sess[s].n + 1] \in SessType
    BY <2>1, <2>2 DEF SessType
  <2>4. sess' = [sess EXCEPT ![s] = [sess[s] EXCEPT !.n = sess[s].n + 1]]
    BY <2>1 DEF SagaInv, TypeOK, SessType
  <2>5. sess' \in [Sessions -> SessType]
    BY <2>3, <2>4 DEF SagaInv, TypeOK
  <2>6. Files[sess[s].n + 1] \in AllFiles
    BY <2>1, ThreeFiles DEF SessType
  <2>7. staged' \in [Jobs -> SUBSET AllFiles]
    BY <2>6 DEF SagaInv, TypeOK
  <2> QED BY <2>5, <2>7 DEF SagaInv, TypeOK
<1>3. SessionFits(s)'
  BY DEF SagaInv, TypeOK, SessType, OperType, SessionFits, OperationFits, Own, Idle, NoOperation,
     Late, Writing, Files, GoTo
<1>4. sess'[s].pc = "appending" => LedgerFree
  BY DEF SagaInv, TypeOK, SessType, Idle, GoTo
<1> HIDE DEF StageFile, dbVars
<1> QED BY <1>1, <1>2, <1>3, <1>4, RowsStay, StillStep

(* Changed evidence is refused.                                            *)
LEMMA StageRefusedInv ==
    ASSUME SagaInv, NEW s \in Sessions, StageRefused(s) PROVE SagaInv' /\ Still
<1> USE DEF StageRefused, At, Finish, Fault, dbVars, fileVars, outside
<1>1. Still /\ OthersStay(s) /\ UNCHANGED dbVars
  BY DEF SagaInv, TypeOK, Still, OthersStay, GoTo
<1>2. TypeOK'
  BY GoToTyped, NothingTyped DEF SagaInv, TypeOK, Pcs, Locked, AllFiles
<1>3. SessionFits(s)'
  BY DEF SagaInv, TypeOK, SessType, OperType, SessionFits, OperationFits, Own, Idle, NoOperation,
     Late, Writing, Files, GoTo
<1>4. sess'[s].pc = "appending" => LedgerFree
  BY DEF SagaInv, TypeOK, SessType, Idle, GoTo
<1> HIDE DEF StageRefused, dbVars
<1> QED BY <1>1, <1>2, <1>3, <1>4, RowsStay, StillStep

(* Rows that were rewritten do not fit the frozen report.                  *)
LEMMA StageMismatchInv ==
    ASSUME SagaInv, NEW s \in Sessions, StageMismatch(s) PROVE SagaInv' /\ Still
<1> USE DEF StageMismatch, At, Finish, Fault, dbVars, fileVars, outside
<1>1. Still /\ OthersStay(s) /\ UNCHANGED dbVars
  BY DEF SagaInv, TypeOK, Still, OthersStay, GoTo
<1>2. TypeOK'
  BY GoToTyped, NothingTyped DEF SagaInv, TypeOK, Pcs, Locked, AllFiles
<1>3. SessionFits(s)'
  BY DEF SagaInv, TypeOK, SessType, OperType, SessionFits, OperationFits, Own, Idle, NoOperation,
     Late, Writing, Files, GoTo
<1>4. sess'[s].pc = "appending" => LedgerFree
  BY DEF SagaInv, TypeOK, SessType, Idle, GoTo
<1> HIDE DEF StageMismatch, dbVars
<1> QED BY <1>1, <1>2, <1>3, <1>4, RowsStay, StillStep

(* The staged set is looked at.                                            *)
LEMMA PublishCheckInv ==
    ASSUME SagaInv, NEW s \in Sessions, PublishCheck(s) PROVE SagaInv' /\ Still
<1> USE DEF PublishCheck, At, Finish, Fault, dbVars, fileVars, outside
<1>1. Still /\ OthersStay(s) /\ UNCHANGED dbVars
  BY DEF SagaInv, TypeOK, Still, OthersStay, GoTo
<1>2. TypeOK'
  BY GoToTyped, NothingTyped DEF SagaInv, TypeOK, Pcs, Locked, AllFiles
<1>3. SessionFits(s)'
  BY DEF SagaInv, TypeOK, SessType, OperType, SessionFits, OperationFits, Own, Idle, NoOperation,
     Late, Writing, Files, GoTo
<1>4. sess'[s].pc = "appending" => LedgerFree
  BY DEF SagaInv, TypeOK, SessType, Idle, GoTo
<1> HIDE DEF PublishCheck, dbVars
<1> QED BY <1>1, <1>2, <1>3, <1>4, RowsStay, StillStep

(* A file is in neither place.                                             *)
LEMMA PublishMissingInv ==
    ASSUME SagaInv, NEW s \in Sessions, PublishMissing(s) PROVE SagaInv' /\ Still
<1> USE DEF PublishMissing, At, Finish, Fault, dbVars, fileVars, outside
<1>1. Still /\ OthersStay(s) /\ UNCHANGED dbVars
  BY DEF SagaInv, TypeOK, Still, OthersStay, GoTo
<1>2. TypeOK'
  BY GoToTyped, NothingTyped DEF SagaInv, TypeOK, Pcs, Locked, AllFiles
<1>3. SessionFits(s)'
  BY DEF SagaInv, TypeOK, SessType, OperType, SessionFits, OperationFits, Own, Idle, NoOperation,
     Late, Writing, Files, GoTo
<1>4. sess'[s].pc = "appending" => LedgerFree
  BY DEF SagaInv, TypeOK, SessType, Idle, GoTo
<1> HIDE DEF PublishMissing, dbVars
<1> QED BY <1>1, <1>2, <1>3, <1>4, RowsStay, StillStep

(* The ledger is read under its lock.                                      *)
LEMMA LedgerReadInv ==
    ASSUME SagaInv, NEW s \in Sessions, LedgerRead(s) PROVE SagaInv' /\ Still
<1> USE DEF LedgerRead, At, Finish, Fault, dbVars, fileVars, outside
<1>1. Still /\ OthersStay(s) /\ UNCHANGED dbVars
  BY DEF SagaInv, TypeOK, Still, OthersStay, GoTo
<1>2. TypeOK'
  <2>1. sess[s] \in SessType /\ [sess[s] EXCEPT !.pc = "appending", !.view = ledger] \in SessType
    BY DEF SagaInv, TypeOK, SessType, Pcs, Locked
  <2>2. sess' = [sess EXCEPT ![s] = [sess[s] EXCEPT !.pc = "appending", !.view = ledger]]
    BY <2>1 DEF SagaInv, TypeOK, SessType
  <2>3. sess' \in [Sessions -> SessType]
    BY <2>1, <2>2 DEF SagaInv, TypeOK
  <2> QED BY <2>3, ThreeFiles DEF SagaInv, TypeOK
<1>3. SessionFits(s)'
  BY DEF SagaInv, TypeOK, SessType, OperType, SessionFits, OperationFits, Own, Idle, NoOperation,
     Late, Writing, Files, GoTo
<1>4. sess'[s].pc = "appending" => LedgerFree
  BY DEF SagaInv, TypeOK, SessType, Idle, GoTo
<1> HIDE DEF LedgerRead, dbVars
<1> QED BY <1>1, <1>2, <1>3, <1>4, RowsStay, StillStep

(* The last check before completion fails.                                 *)
LEMMA CompleteRefusedInv ==
    ASSUME SagaInv, NEW s \in Sessions, CompleteRefused(s) PROVE SagaInv' /\ Still
<1> USE DEF CompleteRefused, At, Finish, Fault, dbVars, fileVars, outside
<1>1. Still /\ OthersStay(s) /\ UNCHANGED dbVars
  BY DEF SagaInv, TypeOK, Still, OthersStay, GoTo
<1>2. TypeOK'
  BY GoToTyped, NothingTyped DEF SagaInv, TypeOK, Pcs, Locked, AllFiles
<1>3. SessionFits(s)'
  BY DEF SagaInv, TypeOK, SessType, OperType, SessionFits, OperationFits, Own, Idle, NoOperation,
     Late, Writing, Files, GoTo
<1>4. sess'[s].pc = "appending" => LedgerFree
  BY DEF SagaInv, TypeOK, SessType, Idle, GoTo
<1> HIDE DEF CompleteRefused, dbVars
<1> QED BY <1>1, <1>2, <1>3, <1>4, RowsStay, StillStep

(* A completed operation does not fit.                                     *)
LEMMA CheckRefusedInv ==
    ASSUME SagaInv, NEW s \in Sessions, CheckRefused(s) PROVE SagaInv' /\ Still
<1> USE DEF CheckRefused, At, Finish, Fault, dbVars, fileVars, outside
<1>1. Still /\ OthersStay(s) /\ UNCHANGED dbVars
  BY DEF SagaInv, TypeOK, Still, OthersStay, GoTo
<1>2. TypeOK'
  BY GoToTyped, NothingTyped DEF SagaInv, TypeOK, Pcs, Locked, AllFiles
<1>3. SessionFits(s)'
  BY DEF SagaInv, TypeOK, SessType, OperType, SessionFits, OperationFits, Own, Idle, NoOperation,
     Late, Writing, Files, GoTo
<1>4. sess'[s].pc = "appending" => LedgerFree
  BY DEF SagaInv, TypeOK, SessType, Idle, GoTo
<1> HIDE DEF CheckRefused, dbVars
<1> QED BY <1>1, <1>2, <1>3, <1>4, RowsStay, StillStep

(* The row no longer says completed.                                       *)
LEMMA CheckStoppedInv ==
    ASSUME SagaInv, NEW s \in Sessions, CheckStopped(s) PROVE SagaInv' /\ Still
<1> USE DEF CheckStopped, At, Finish, Fault, dbVars, fileVars, outside
<1>1. Still /\ OthersStay(s) /\ UNCHANGED dbVars
  BY DEF SagaInv, TypeOK, Still, OthersStay, GoTo
<1>2. TypeOK'
  BY GoToTyped, NothingTyped DEF SagaInv, TypeOK, Pcs, Locked, AllFiles
<1>3. SessionFits(s)'
  BY DEF SagaInv, TypeOK, SessType, OperType, SessionFits, OperationFits, Own, Idle, NoOperation,
     Late, Writing, Files, GoTo
<1>4. sess'[s].pc = "appending" => LedgerFree
  BY DEF SagaInv, TypeOK, SessType, Idle, GoTo
<1> HIDE DEF CheckStopped, dbVars
<1> QED BY <1>1, <1>2, <1>3, <1>4, RowsStay, StillStep

(* A durable completion does not fit.                                      *)
LEMMA FoundInconsistentInv ==
    ASSUME SagaInv, NEW s \in Sessions, FoundInconsistent(s) PROVE SagaInv' /\ Still
<1> USE DEF FoundInconsistent, At, Finish, Fault, dbVars, fileVars, outside
<1>1. Still /\ OthersStay(s) /\ UNCHANGED dbVars
  BY DEF SagaInv, TypeOK, Still, OthersStay, GoTo
<1>2. TypeOK'
  BY GoToTyped, NothingTyped DEF SagaInv, TypeOK, Pcs, Locked, AllFiles
<1>3. SessionFits(s)'
  BY DEF SagaInv, TypeOK, SessType, OperType, SessionFits, OperationFits, Own, Idle, NoOperation,
     Late, Writing, Files, GoTo
<1>4. sess'[s].pc = "appending" => LedgerFree
  BY DEF SagaInv, TypeOK, SessType, Idle, GoTo
<1> HIDE DEF FoundInconsistent, dbVars
<1> QED BY <1>1, <1>2, <1>3, <1>4, RowsStay, StillStep

(* A completed operation is whole.                                         *)
LEMMA CheckCompletedInv ==
    ASSUME SagaInv, NEW s \in Sessions, CheckCompleted(s) PROVE SagaInv' /\ Still
<1> USE DEF CheckCompleted, At, Finish, Fault, dbVars, fileVars, outside
<1>1. Still /\ OthersStay(s) /\ UNCHANGED dbVars
  BY DEF SagaInv, TypeOK, Still, OthersStay, GoTo
<1>2. TypeOK'
  BY GoToTyped, NothingTyped DEF SagaInv, TypeOK, Pcs, Locked, AllFiles
<1>3. SessionFits(s)'
  BY DEF SagaInv, TypeOK, SessType, OperType, SessionFits, OperationFits, Own, Idle, NoOperation,
     Late, Writing, Files, GoTo
<1>4. sess'[s].pc = "appending" => LedgerFree
  BY DEF SagaInv, TypeOK, SessType, Idle, GoTo
<1> HIDE DEF CheckCompleted, dbVars
<1> QED BY <1>1, <1>2, <1>3, <1>4, RowsStay, StillStep

(* A durable completion is whole.                                          *)
LEMMA FoundCompletedInv ==
    ASSUME SagaInv, NEW s \in Sessions, FoundCompleted(s) PROVE SagaInv' /\ Still
<1> USE DEF FoundCompleted, At, Finish, Fault, dbVars, fileVars, outside
<1>1. Still /\ OthersStay(s) /\ UNCHANGED dbVars
  BY DEF SagaInv, TypeOK, Still, OthersStay, GoTo
<1>2. TypeOK'
  BY GoToTyped, NothingTyped DEF SagaInv, TypeOK, Pcs, Locked, AllFiles
<1>3. SessionFits(s)'
  BY DEF SagaInv, TypeOK, SessType, OperType, SessionFits, OperationFits, Own, Idle, NoOperation,
     Late, Writing, Files, GoTo
<1>4. sess'[s].pc = "appending" => LedgerFree
  BY DEF SagaInv, TypeOK, SessType, Idle, GoTo
<1> HIDE DEF FoundCompleted, dbVars
<1> QED BY <1>1, <1>2, <1>3, <1>4, RowsStay, StillStep

(* An error interrupts a session.                                          *)
LEMMA IoErrorInv ==
    ASSUME SagaInv, NEW s \in Sessions, IoError(s) PROVE SagaInv' /\ Still
<1> USE DEF IoError, At, Finish, Fault, dbVars, fileVars, outside
<1>1. Still /\ OthersStay(s) /\ UNCHANGED dbVars
  BY DEF SagaInv, TypeOK, Still, OthersStay, GoTo
<1>2. TypeOK'
  BY GoToTyped, SagaAssumption, NothingTyped DEF SagaInv, TypeOK, Pcs, Locked, AllFiles
<1>3. SessionFits(s)'
  BY DEF SagaInv, TypeOK, SessType, OperType, SessionFits, OperationFits, Own, Idle, NoOperation,
     Late, Writing, Files, GoTo, Locked
<1>4. sess'[s].pc = "appending" => LedgerFree
  BY DEF SagaInv, TypeOK, SessType, Idle, GoTo
<1> HIDE DEF IoError, dbVars
<1> QED BY <1>1, <1>2, <1>3, <1>4, RowsStay, StillStep

(* A read error is taken for damage.                                       *)
LEMMA ReadErrorInv ==
    ASSUME SagaInv, NEW s \in Sessions, ReadError(s) PROVE SagaInv' /\ Still
<1> USE DEF ReadError, ReadsForDamage, At, Finish, Fault, dbVars, fileVars
<1>1. Still /\ OthersStay(s) /\ UNCHANGED dbVars
  BY DEF SagaInv, TypeOK, Still, OthersStay, GoTo
<1>2. TypeOK'
  <2>1. sess[s].job \in Jobs
    BY DEF SagaInv, SessionFits
  <2> QED BY <2>1, GoToTyped, SagaAssumption, NothingTyped
          DEF SagaInv, TypeOK, Pcs, Locked, AllFiles
<1>3. SessionFits(s)'
  BY DEF SagaInv, TypeOK, SessType, OperType, SessionFits, OperationFits, Own, Idle, NoOperation,
     Late, Writing, Files, GoTo, Locked
<1>4. sess'[s].pc = "appending" => LedgerFree
  BY DEF SagaInv, TypeOK, SessType, Idle, GoTo
<1> HIDE DEF ReadError, dbVars
<1> QED BY <1>1, <1>2, <1>3, <1>4, RowsStay, StillStep

(* A session dies.                                                         *)
LEMMA CrashInv ==
    ASSUME SagaInv, NEW s \in Sessions, Crash(s) PROVE SagaInv' /\ Still
<1> USE DEF Crash, At, Finish, Fault, dbVars, fileVars, outside
<1>1. Still /\ OthersStay(s) /\ UNCHANGED dbVars
  BY DEF SagaInv, TypeOK, Still, OthersStay, GoTo
<1>2. TypeOK'
  BY GoToTyped, SagaAssumption, NothingTyped DEF SagaInv, TypeOK, Pcs, Locked, AllFiles
<1>3. SessionFits(s)'
  BY DEF SagaInv, TypeOK, SessType, OperType, SessionFits, OperationFits, Own, Idle, NoOperation,
     Late, Writing, Files, GoTo
<1>4. sess'[s].pc = "appending" => LedgerFree
  BY DEF SagaInv, TypeOK, SessType, Idle, GoTo
<1> HIDE DEF Crash, dbVars
<1> QED BY <1>1, <1>2, <1>3, <1>4, RowsStay, StillStep

(* The lock is taken, or is busy.                                          *)
LEMMA LockInv ==
    ASSUME SagaInv, NEW s \in Sessions, Lock(s) PROVE SagaInv' /\ Still
<1> USE DEF Lock, At, Finish, Fault, dbVars, fileVars, outside
<1>1. Still /\ OthersStay(s) /\ UNCHANGED dbVars
  BY DEF SagaInv, TypeOK, Still, OthersStay, GoTo
<1>2. TypeOK'
  <2> DEFINE held == IF sess[s].fresh THEN oper[sess[s].job] ELSE sess[s].snap
             next == IF held.state = "completed" THEN "checking" ELSE "begin"
  <2>1. sess[s] \in SessType /\ held \in OperType /\ next \in Pcs
    BY DEF SagaInv, TypeOK, SessionFits, SessType, Pcs, Locked
  <2> HIDE DEF held, next
  <2>2. [sess[s] EXCEPT !.snap = held, !.pc = next] \in SessType
    BY <2>1 DEF SessType
  <2>3. \/ sess' = [sess EXCEPT ![s] = Idle]
        \/ sess' = [sess EXCEPT ![s] = [sess[s] EXCEPT !.snap = held, !.pc = next]]
    BY DEF held, next
  <2>4. sess' \in [Sessions -> SessType]
    BY <2>2, <2>3, NothingTyped DEF SagaInv, TypeOK
  <2> QED BY <2>4 DEF SagaInv, TypeOK
<1>3. SessionFits(s)'
  BY DEF SagaInv, TypeOK, SessType, OperType, SessionFits, OperationFits, Own, Idle, NoOperation,
     Late, Writing, Files, GoTo
<1>4. sess'[s].pc = "appending" => LedgerFree
  BY DEF SagaInv, TypeOK, SessType, Idle, GoTo
<1> HIDE DEF Lock, dbVars
<1> QED BY <1>1, <1>2, <1>3, <1>4, RowsStay, StillStep


-----------------------------------------------------------------------------
(* A commit of an operation's row: the columns come from what the session
   holds, which may be older than the row but is right about files and ledger. *)
LEMMA CommitInv ==
    ASSUME SagaInv, NEW s \in Sessions, sess[s].pc # "idle",
           NEW held \in OperType, NEW next \in Pcs, next # "appending",
           CommitOperation(s, held, next),
           UNCHANGED <<job, rows, fileVars, outside, faults>>,
           held.row # 0 => Own(sess[s].job, held.row),
           held.state \in Late \/ next \in Writing => published[sess[s].job] = AllFiles
    PROVE  SagaInv' /\ Still
<1> DEFINE j == sess[s].job
           row == [oper[j] EXCEPT
                     !.state = IF held.state = sess[s].snap.state THEN oper[j].state ELSE held.state,
                     !.digests = oper[j].digests \/ held.digests,
                     !.row = IF held.row = 0 THEN oper[j].row ELSE held.row]
<1>1. j \in Jobs /\ sess[s] \in SessType /\ oper[j] \in OperType
  BY DEF SagaInv, TypeOK, SessionFits
<1>2. oper' = [oper EXCEPT ![j] = row]
  BY <1>1 DEF CommitOperation, SagaInv, TypeOK, OperType
<1>3. row \in OperType
  <2>1. (oper[j].digests \/ held.digests) \in BOOLEAN
    OBVIOUS
  <2> QED BY <1>1, <2>1 DEF OperType
<1>4. sess' = [sess EXCEPT ![s] = [sess[s] EXCEPT !.snap = held, !.pc = next, !.n = 0]]
  BY <1>1 DEF CommitOperation, SagaInv, TypeOK, SessType
<1>5. [sess[s] EXCEPT !.snap = held, !.pc = next, !.n = 0] \in SessType
  <2>1. 0 \in 0 .. Len(Files)
    BY ThreeFiles
  <2> QED BY <1>1, <2>1 DEF SessType
<1>6. Still /\ OthersStay(s)
  BY <1>4 DEF fileVars, outside, Still, OthersStay, SagaInv, TypeOK
<1>7. TypeOK'
  BY <1>1, <1>2, <1>3, <1>4, <1>5 DEF SagaInv, TypeOK, fileVars, outside
<1>8. SessionFits(s)'
  <2>1. /\ sess'[s].job = j /\ sess'[s].snap = held /\ sess'[s].pc = next /\ sess'[s].n = 0
    BY <1>1, <1>4 DEF SagaInv, TypeOK, SessType
  <2> QED BY <1>1, <1>6, <2>1 DEF SessionFits, Still, Own
<1>9. ASSUME NEW k \in Jobs PROVE OperationFits(k)' /\ Sealed(k)'
  <2>1. Sealed(k)'
    BY <1>6 DEF SagaInv, Sealed, Still
  <2>2. CASE k # j
    <3>1. oper'[k] = oper[k]
      BY <1>2, <2>2 DEF SagaInv, TypeOK
    <3> QED BY <1>6, <2>1, <3>1 DEF SagaInv, OperationFits, Still, Own
  <2>3. CASE k = j
    <3>1. /\ oper'[j].row = oper[j].row \/ (held.row # 0 /\ oper'[j].row = held.row)
          /\ oper'[j].state \in {oper[j].state, held.state}
      <4>1. oper'[j] = row
        BY <1>1, <1>2 DEF SagaInv, TypeOK
      <4>2. row.row = IF held.row = 0 THEN oper[j].row ELSE held.row
        BY <1>1 DEF OperType
      <4>3. row.state = IF held.state = sess[s].snap.state THEN oper[j].state ELSE held.state
        BY <1>1 DEF OperType
      <4> HIDE DEF row
      <4> QED BY <4>1, <4>2, <4>3
    <3>2. OperationFits(j)
      BY <1>1 DEF SagaInv
    <3> QED BY <1>6, <2>1, <2>3, <3>1, <3>2 DEF OperationFits, Still, Own
  <2> QED BY <2>2, <2>3
<1>10. sess'[s].pc = next
  BY <1>1, <1>4 DEF SagaInv, TypeOK, SessType
<1> QED BY <1>6, <1>7, <1>8, <1>9, <1>10, StillStep

(* The staged set is committed.                                            *)
LEMMA StageCommitInv ==
    ASSUME SagaInv, NEW s \in Sessions, StageCommit(s) PROVE SagaInv' /\ Still
<1> DEFINE held == [sess[s].snap EXCEPT !.state = "artifacts_staged", !.digests = TRUE]
           next == IF sess[s].snap.state = "requested" THEN NextPc("artifacts_staged") ELSE "moving"
<1>1. sess[s].snap \in OperType
  BY DEF SagaInv, TypeOK, SessType
<1>2. held \in OperType /\ held.row = sess[s].snap.row /\ held.state = "artifacts_staged"
  BY <1>1 DEF OperType, OperStates, Resumable
<1>3. next \in {"publishing", "moving"} /\ next \in Pcs /\ next \notin Writing
  BY DEF NextPc, Pcs, Locked, Writing
<1>4. CommitOperation(s, held, next) /\ sess[s].pc # "idle"
  BY DEF StageCommit, At
<1>5. held.row # 0 => Own(sess[s].job, held.row)
  BY <1>2 DEF SagaInv, SessionFits
<1>6. held.state \notin Late
  BY <1>2 DEF Late
<1>7. UNCHANGED <<job, rows, fileVars, outside, faults>>
  BY DEF StageCommit
<1> HIDE DEF held, next
<1> QED BY <1>2, <1>3, <1>4, <1>5, <1>6, <1>7, CommitInv

(* Every file was moved before the operation says so.                      *)
LEMMA PublishCommitInv ==
    ASSUME SagaInv, NEW s \in Sessions, PublishCommit(s) PROVE SagaInv' /\ Still
<1> DEFINE held == [sess[s].snap EXCEPT !.state = "files_published"]
<1>1. sess[s].snap \in OperType /\ sess[s].job \in Jobs
  BY DEF SagaInv, TypeOK, SessType, SessionFits, PublishCommit, At
<1>2. held \in OperType /\ held.row = sess[s].snap.row /\ held.state = "files_published"
  BY <1>1 DEF OperType, OperStates, Resumable
<1>3. published[sess[s].job] = AllFiles
  <2>1. \A i \in 1 .. 3 : Files[i] \in published[sess[s].job]
    BY ThreeFiles DEF PublishCommit, At, SagaInv, SessionFits
  <2>2. published[sess[s].job] \subseteq AllFiles
    BY <1>1 DEF SagaInv, TypeOK
  <2>3. Files[1] \in published[sess[s].job] /\ Files[2] \in published[sess[s].job] /\ Files[3] \in published[sess[s].job]
    BY <2>1
  <2> QED BY <2>2, <2>3, ThreeFiles
<1>4. CommitOperation(s, held, "ledger") /\ sess[s].pc # "idle"
  BY DEF PublishCommit, At, NextPc
<1>5. held.row # 0 => Own(sess[s].job, held.row)
  BY <1>2 DEF SagaInv, SessionFits
<1>6. UNCHANGED <<job, rows, fileVars, outside, faults>>
  BY DEF PublishCommit
<1> HIDE DEF held
<1> QED BY <1>2, <1>3, <1>4, <1>5, <1>6, CommitInv DEF Pcs, Locked

(* The index of the row is committed.                                      *)
LEMMA LedgerCommitInv ==
    ASSUME SagaInv, NEW s \in Sessions, LedgerCommit(s) PROVE SagaInv' /\ Still
<1> DEFINE held == [sess[s].snap EXCEPT !.state = "ledger_appended"]
<1>1. sess[s].snap \in OperType
  BY DEF SagaInv, TypeOK, SessType
<1>2. held \in OperType /\ held.row = sess[s].snap.row
  BY <1>1 DEF OperType, OperStates, Resumable
<1>3. published[sess[s].job] = AllFiles
  BY DEF LedgerCommit, At, SagaInv, SessionFits, Writing
<1>4. CommitOperation(s, held, "completing") /\ sess[s].pc # "idle"
  BY DEF LedgerCommit, At, NextPc
<1>5. held.row # 0 => Own(sess[s].job, held.row)
  BY <1>2 DEF SagaInv, SessionFits
<1>6. UNCHANGED <<job, rows, fileVars, outside, faults>>
  BY DEF LedgerCommit
<1> HIDE DEF held
<1> QED BY <1>2, <1>3, <1>4, <1>5, <1>6, CommitInv DEF Pcs, Locked

-----------------------------------------------------------------------------
(* The approval, and the sessions that take an operation up.               *)
LEMMA ApproveInv ==
    ASSUME SagaInv, NEW s \in Sessions, NEW k \in Jobs, Approve(s, k) PROVE SagaInv' /\ Still
<1> DEFINE requested == [NoOperation EXCEPT !.state = "requested"]
           waiting == [Idle EXCEPT !.pc = "waiting", !.job = k, !.snap = requested]
<1>1. requested \in OperType /\ requested.row = 0 /\ requested.state = "requested"
  BY DEF NoOperation, OperType, OperStates, Resumable
<1> HIDE DEF requested
<1>2. waiting \in SessType /\ waiting.pc = "waiting" /\ waiting.job = k /\ waiting.snap = requested
  BY <1>1, ThreeFiles, NothingTyped DEF Idle, SessType, Pcs
<1> HIDE DEF waiting
<1>3. /\ job[k] = "needs_review" /\ job' = [job EXCEPT ![k] = "sealing"]
      /\ oper' = [oper EXCEPT ![k] = requested] /\ sess' = [sess EXCEPT ![s] = waiting]
      /\ UNCHANGED <<rows, fileVars, outside, faults>>
  BY DEF Approve, requested, waiting
<1>4. Still /\ OthersStay(s)
  BY <1>3 DEF fileVars, outside, Still, OthersStay, SagaInv, TypeOK
<1>5. TypeOK'
  BY <1>1, <1>2, <1>3 DEF SagaInv, TypeOK, fileVars, outside, JobStates
<1>6. sess'[s] = waiting
  BY <1>3 DEF SagaInv, TypeOK
<1>7. SessionFits(s)'
  BY <1>1, <1>2, <1>6 DEF SessionFits, Late, Writing
<1>8. ASSUME NEW j \in Jobs PROVE OperationFits(j)' /\ Sealed(j)'
  BY <1>1, <1>3, <1>4 DEF SagaInv, TypeOK, OperationFits, Sealed, Still, Own, Late
<1>9. sess'[s].pc # "appending"
  BY <1>2, <1>6
<1> QED BY <1>4, <1>5, <1>7, <1>8, <1>9, StillStep

(* A repeated approval remembers the row as it is; a recovery reads it later. *)
LEMMA TakeUpInv ==
    ASSUME SagaInv, NEW s \in Sessions, NEW k \in Jobs, RepeatApproval(s, k) \/ StartRecovery(s, k)
    PROVE  SagaInv' /\ Still
<1>1. UNCHANGED <<dbVars, fileVars, outside, faults>>
  BY DEF RepeatApproval, StartRecovery
<1>2. oper[k] \in OperType
  BY DEF SagaInv, TypeOK
<1>3. PICK waiting \in SessType :
          /\ sess' = [sess EXCEPT ![s] = waiting]
          /\ waiting.pc = "waiting" /\ waiting.job = k /\ waiting.snap \in {oper[k], NoOperation}
  <2>1. CASE RepeatApproval(s, k)
    <3> DEFINE x == [Idle EXCEPT !.pc = "waiting", !.job = k, !.snap = oper[k]]
    <3>1. x \in SessType /\ x.pc = "waiting" /\ x.job = k /\ x.snap = oper[k]
      BY <1>2, ThreeFiles, NothingTyped DEF Idle, SessType, Pcs
    <3>2. sess' = [sess EXCEPT ![s] = x]
      BY <2>1 DEF RepeatApproval
    <3> HIDE DEF x
    <3> QED BY <3>1, <3>2
  <2>2. CASE StartRecovery(s, k)
    <3> DEFINE x == [Idle EXCEPT !.pc = "waiting", !.job = k, !.fresh = TRUE]
    <3>1. x \in SessType /\ x.pc = "waiting" /\ x.job = k /\ x.snap = NoOperation
      BY ThreeFiles, NothingTyped DEF Idle, SessType, Pcs
    <3>2. sess' = [sess EXCEPT ![s] = x]
      BY <2>2 DEF StartRecovery
    <3> HIDE DEF x
    <3> QED BY <3>1, <3>2
  <2> QED BY <2>1, <2>2
<1> DEFINE snap == waiting.snap
<1>4. sess' = [sess EXCEPT ![s] = waiting] /\ UNCHANGED <<dbVars, fileVars, outside, faults>>
  BY <1>1, <1>3
<1>5. Still /\ OthersStay(s) /\ UNCHANGED dbVars
  BY <1>4 DEF fileVars, outside, Still, OthersStay, SagaInv, TypeOK
<1>6. TypeOK'
  BY <1>3, <1>4 DEF SagaInv, TypeOK, fileVars, outside, dbVars
<1>7. sess'[s] = waiting
  BY <1>4 DEF SagaInv, TypeOK
<1>8. SessionFits(s)'
  <2>1. snap.row # 0 => Own(k, snap.row)
    BY <1>3 DEF SagaInv, OperationFits, NoOperation
  <2>2. snap.state \in Late => published[k] = AllFiles
    BY <1>3 DEF SagaInv, OperationFits, NoOperation, Late
  <2> QED BY <1>3, <1>5, <1>7, <2>1, <2>2 DEF SessionFits, Writing, Own, Still
<1>9. sess'[s].pc # "appending"
  BY <1>3, <1>7
<1> QED BY <1>5, <1>6, <1>8, <1>9, RowsStay, StillStep

(* A rejection, a lost scratch directory and changed evidence touch no
   session, no published file and no ledger.                               *)
LEMMA OutsideInv ==
    ASSUME SagaInv, NEW j \in Jobs,
           (\E s \in Sessions : Reject(s, j)) \/ LoseStaging(j) \/ ChangeSource(j)
    PROVE  SagaInv' /\ Still
<1>1. Still /\ UNCHANGED <<sess, oper, rows>> /\ job' \in {job, [job EXCEPT ![j] = "rejected"]}
  BY DEF Reject, LoseStaging, ChangeSource, fileVars, outside, dbVars, Still
<1>2. TypeOK'
  <2>1. misread' = misread /\ changed' \subseteq Jobs \X Sources
    <3>1. CASE (\E s \in Sessions : Reject(s, j)) \/ LoseStaging(j)
      BY <3>1 DEF SagaInv, TypeOK, Reject, LoseStaging, outside
    <3>2. CASE ChangeSource(j)
      BY <3>2 DEF SagaInv, TypeOK, ChangeSource
    <3> QED BY <3>1, <3>2
  <2> QED BY <1>1, <2>1, SagaAssumption
          DEF SagaInv, TypeOK, Reject, LoseStaging, ChangeSource, Fault, fileVars, dbVars, JobStates
<1>3. \A s \in Sessions : SessionFits(s)'
  BY <1>1 DEF SagaInv, SessionFits, Still, Own
<1>4. ASSUME NEW k \in Jobs PROVE OperationFits(k)' /\ Sealed(k)'
  BY <1>1 DEF SagaInv, TypeOK, OperationFits, Sealed, Still, Own
<1>5. LedgerLocked' /\ OneLedgerRowPerArchive' /\ LedgerOnlyNamesPublished'
  BY <1>1 DEF SagaInv, LedgerLocked, Still, OneLedgerRowPerArchive, LedgerOnlyNamesPublished
<1> QED BY <1>1, <1>2, <1>3, <1>4, <1>5 DEF SagaInv

(* A step that leaves the index and lets the state of a row become no later
   than its files, keeps the rows fitting.                                 *)
LEMMA RowsFit ==
    ASSUME SagaInv, Still, NEW j \in Jobs, UNCHANGED <<job, rows>>,
           \A k \in Jobs \ {j} : oper'[k] = oper[k],
           oper'[j].row = oper[j].row, oper'[j].state \in {oper[j].state, "manual_attention"}
    PROVE  \A k \in Jobs : OperationFits(k)' /\ Sealed(k)'
<1> TAKE k \in Jobs
<1>1. Sealed(k)'
  BY DEF SagaInv, Sealed, Still
<1>2. CASE k = j
  BY <1>1, <1>2 DEF SagaInv, OperationFits, Still, Own, Late
<1>3. CASE k # j
  BY <1>1, <1>3 DEF SagaInv, OperationFits, Still, Own
<1> QED BY <1>2, <1>3

(* A session begins by clearing the error of the last attempt.             *)
LEMMA BeginInv ==
    ASSUME SagaInv, NEW s \in Sessions, Begin(s) PROVE SagaInv' /\ Still
<1> DEFINE j == sess[s].job
           next == NextPc(sess[s].snap.state)
<1>1. j \in Jobs /\ sess[s] \in SessType /\ oper[j] \in OperType /\ sess[s].snap \in OperType
  BY DEF SagaInv, TypeOK, SessionFits, SessType, Begin, At
<1>2. next \in {"staging", "publishing", "ledger", "completing", "checking"} /\ next \in Pcs
  BY DEF NextPc, Pcs, Locked
<1>3. next \in Writing => sess[s].snap.state \in Late
  BY DEF NextPc, Writing, Late
<1>4. /\ sess' = [sess EXCEPT ![s] = [sess[s] EXCEPT !.snap = [sess[s].snap EXCEPT !.error = FALSE], !.pc = next]]
      /\ oper' = [oper EXCEPT ![j].error = oper[j].error /\ ~sess[s].snap.error]
      /\ UNCHANGED <<job, rows, fileVars, outside, faults>>
  BY <1>1 DEF Begin
<1> HIDE DEF next
<1>5. [sess[s].snap EXCEPT !.error = FALSE] \in OperType
  BY <1>1 DEF OperType
<1>6. [sess[s] EXCEPT !.snap = [sess[s].snap EXCEPT !.error = FALSE], !.pc = next] \in SessType
  BY <1>1, <1>2, <1>5 DEF SessType
<1>7. Still /\ OthersStay(s)
  BY <1>4 DEF fileVars, outside, Still, OthersStay, SagaInv, TypeOK
<1>8. [oper[j] EXCEPT !.error = oper[j].error /\ ~sess[s].snap.error] \in OperType
  <2>1. (oper[j].error /\ ~sess[s].snap.error) \in BOOLEAN
    OBVIOUS
  <2> QED BY <1>1, <2>1 DEF OperType
<1>9. oper' \in [Jobs -> OperType] /\ TypeOK'
  <2>1. oper' = [oper EXCEPT ![j] = [oper[j] EXCEPT !.error = oper[j].error /\ ~sess[s].snap.error]]
    BY <1>1, <1>4
  <2>2. oper' \in [Jobs -> OperType]
    BY <1>1, <1>8, <2>1 DEF SagaInv, TypeOK
  <2> QED BY <1>4, <1>6, <2>2 DEF SagaInv, TypeOK, fileVars, outside
<1>10. /\ sess'[s].job = j /\ sess'[s].pc = next /\ sess'[s].n = sess[s].n
       /\ sess'[s].snap.row = sess[s].snap.row /\ sess'[s].snap.state = sess[s].snap.state
  BY <1>1, <1>4 DEF SagaInv, TypeOK, SessType, OperType
<1>11. SessionFits(s)'
  BY <1>1, <1>2, <1>3, <1>7, <1>10 DEF SagaInv, SessionFits, Still, Own
<1>12. /\ \A k \in Jobs \ {j} : oper'[k] = oper[k]
       /\ oper'[j].row = oper[j].row /\ oper'[j].state = oper[j].state
  BY <1>1, <1>4 DEF SagaInv, TypeOK, OperType
<1>13. \A k \in Jobs : OperationFits(k)' /\ Sealed(k)'
  BY <1>1, <1>4, <1>7, <1>12, RowsFit
<1> QED BY <1>2, <1>7, <1>9, <1>10, <1>11, <1>13, StillStep

(* A failure is written into the row, with or without setting it aside.    *)
LEMMA FailureInv ==
    ASSUME SagaInv, NEW s \in Sessions, RecordFailure(s) \/ PersistManualAttention(s)
    PROVE  SagaInv' /\ Still
<1> DEFINE j == sess[s].job
<1>1. j \in Jobs /\ oper[j] \in OperType
  BY DEF SagaInv, TypeOK, SessionFits, RecordFailure, PersistManualAttention, At
<1>2. PICK state \in {oper[j].state, "manual_attention"} :
          oper' = [oper EXCEPT ![j] = [oper[j] EXCEPT !.state = state, !.error = TRUE]]
  <2>1. CASE RecordFailure(s)
    <3>1. [oper[j] EXCEPT !.error = TRUE] = [oper[j] EXCEPT !.state = oper[j].state, !.error = TRUE]
      BY <1>1 DEF OperType
    <3> QED BY <1>1, <2>1, <3>1 DEF RecordFailure
  <2>2. CASE PersistManualAttention(s)
    <3>1. oper' = [oper EXCEPT ![j] = [oper[j] EXCEPT !.state = "manual_attention", !.error = TRUE]]
      BY <1>1, <2>2 DEF PersistManualAttention
    <3> QED BY <3>1
  <2> QED BY <2>1, <2>2
<1>3. [oper[j] EXCEPT !.state = state, !.error = TRUE] \in OperType
  BY <1>1, <1>2 DEF OperType, OperStates
<1>4. sess' = [sess EXCEPT ![s] = Idle] /\ UNCHANGED <<job, rows, fileVars, outside, faults>>
  BY DEF RecordFailure, PersistManualAttention
<1>5. Still /\ OthersStay(s)
  BY <1>4 DEF fileVars, outside, Still, OthersStay, SagaInv, TypeOK
<1>6. TypeOK'
  BY <1>1, <1>2, <1>3, <1>4, NothingTyped DEF SagaInv, TypeOK, fileVars, outside
<1>7. sess'[s] = Idle
  BY <1>4 DEF SagaInv, TypeOK
<1>8. SessionFits(s)' /\ sess'[s].pc # "appending"
  BY <1>7 DEF SessionFits, Idle, NoOperation, Late, Writing
<1>9. /\ \A k \in Jobs \ {j} : oper'[k] = oper[k]
      /\ oper'[j].row = oper[j].row /\ oper'[j].state \in {oper[j].state, "manual_attention"}
  BY <1>1, <1>2 DEF SagaInv, TypeOK, OperType
<1>10. \A k \in Jobs : OperationFits(k)' /\ Sealed(k)'
  BY <1>1, <1>4, <1>5, <1>9, RowsFit
<1> QED BY <1>5, <1>6, <1>8, <1>10, StillStep

-----------------------------------------------------------------------------
(* A file is moved; what was published stays.                              *)
LEMMA PublishFileInv ==
    ASSUME SagaInv, NEW s \in Sessions, PublishFile(s)
    PROVE  SagaInv' /\ ledger' = ledger
<1> DEFINE j == sess[s].job
           f == Files[sess[s].n + 1]
<1>1. j \in Jobs /\ sess[s] \in SessType /\ sess[s].pc = "moving" /\ sess[s].n \in 0 .. 2
  BY ThreeFiles DEF SagaInv, TypeOK, SessionFits, SessType, PublishFile, At
<1>2. f \in AllFiles
  BY <1>1, ThreeFiles
<1>3. /\ published' = [published EXCEPT ![j] = published[j] \cup {f}]
      /\ staged' = [staged EXCEPT ![j] = staged[j] \ {f}]
      /\ sess' = [sess EXCEPT ![s] = [sess[s] EXCEPT !.n = sess[s].n + 1]]
      /\ UNCHANGED <<dbVars, ledger, outside, faults>>
  BY <1>1 DEF PublishFile, SagaInv, TypeOK
<1>4. \A i \in 1 .. (sess[s].n + 1) : Files[i] \in published[j] \cup {f}
  <2> TAKE i \in 1 .. (sess[s].n + 1)
  <2>1. CASE i = sess[s].n + 1
    BY <2>1
  <2>2. CASE i # sess[s].n + 1
    <3>1. i \in 1 .. sess[s].n
      BY <1>1, <2>2
    <3> QED BY <1>1, <3>1 DEF SagaInv, SessionFits
  <2> QED BY <2>1, <2>2
<1> HIDE DEF f
<1>5. /\ \A k \in Jobs : published[k] \subseteq published'[k] /\ published'[k] \subseteq AllFiles
      /\ published'[j] = published[j] \cup {f}
  BY <1>1, <1>2, <1>3 DEF SagaInv, TypeOK
<1>6. \A k \in Jobs : published[k] = AllFiles => published'[k] = AllFiles
  BY <1>5
<1>7. TypeOK'
  <2>1. [sess[s] EXCEPT !.n = sess[s].n + 1] \in SessType
    <3>1. sess[s].n + 1 \in 0 .. Len(Files)
      BY <1>1, ThreeFiles
    <3> QED BY <1>1, <3>1 DEF SessType
  <2>2. sess' \in [Sessions -> SessType]
    BY <1>3, <2>1 DEF SagaInv, TypeOK
  <2>3. published' \in [Jobs -> SUBSET AllFiles] /\ staged' \in [Jobs -> SUBSET AllFiles]
    BY <1>1, <1>2, <1>3 DEF SagaInv, TypeOK
  <2> QED BY <1>3, <2>2, <2>3 DEF SagaInv, TypeOK, dbVars, outside
<1>8. /\ sess'[s].pc = "moving" /\ sess'[s].job = j /\ sess'[s].snap = sess[s].snap
      /\ sess'[s].n = sess[s].n + 1
      /\ \A t \in Sessions \ {s} : sess'[t] = sess[t]
  BY <1>1, <1>3 DEF SagaInv, TypeOK, SessType
<1>9. ASSUME NEW t \in Sessions PROVE SessionFits(t)'
  <2>0. SessionFits(t)
    BY DEF SagaInv
  <2>1. CASE t = s
    BY <1>1, <1>3, <1>4, <1>5, <1>6, <1>8, <2>0, <2>1 DEF SessionFits, Own, Writing
  <2>2. CASE t # s
    <3>1. CASE sess[t].pc = "idle"
      <4>1. sess[t].snap.state \in Late => published'[sess[t].job] = AllFiles
        BY <1>3, <2>0, <1>6 DEF SessionFits, SagaInv, TypeOK
      <4> QED BY <1>3, <1>8, <2>0, <2>2, <3>1, <4>1 DEF SessionFits, Own, Writing
    <3>2. CASE sess[t].job \in Jobs
      BY <1>3, <1>5, <1>6, <1>8, <2>0, <2>2, <3>2 DEF SessionFits, Own
    <3> QED BY <2>0, <3>1, <3>2 DEF SessionFits
  <2> QED BY <2>1, <2>2
<1>10. ASSUME NEW k \in Jobs PROVE OperationFits(k)' /\ Sealed(k)'
  BY <1>3, <1>6 DEF SagaInv, OperationFits, Sealed, Own, RowsOf, dbVars
<1>11. LedgerLocked'
  BY <1>1, <1>8 DEF SagaInv, LedgerLocked
<1>12. OneLedgerRowPerArchive' /\ LedgerOnlyNamesPublished'
  <2>1. \A i \in DOMAIN ledger : ledger[i] \in Jobs
    BY DEF SagaInv, TypeOK
  <2> QED BY <1>3, <1>6, <2>1 DEF SagaInv, OneLedgerRowPerArchive, LedgerOnlyNamesPublished
<1> QED BY <1>3, <1>7, <1>9, <1>10, <1>11, <1>12 DEF SagaInv

\* The ledger keeps its rows where they are.
Grows ==
    /\ Len(ledger) <= Len(ledger')
    /\ \A i \in DOMAIN ledger : i \in DOMAIN ledger' /\ ledger'[i] = ledger[i]

(* A session writes its row after the rows it read, which are still the
   ledger, unless its archive has one already.                             *)
LEMMA LedgerWriteInv ==
    ASSUME SagaInv, NEW s \in Sessions, LedgerWrite(s)
    PROVE  SagaInv' /\ Grows
<1> DEFINE j == sess[s].job
           row == FirstRow(ledger', j)
<1>1. j \in Jobs /\ sess[s] \in SessType /\ sess[s].pc = "appending" /\ sess[s].view = ledger
  BY DEF SagaInv, TypeOK, SessionFits, LedgerWrite, At
<1>2. published[j] = AllFiles
  BY <1>1 DEF SagaInv, SessionFits, Writing
<1>3. /\ ledger' = IF RowsOf(ledger, j) # {} THEN ledger ELSE Append(ledger, j)
      /\ UNCHANGED <<dbVars, staged, published, outside, faults>>
  BY <1>1 DEF LedgerWrite, WithRow
<1>4. ledger \in Seq(Jobs) /\ ledger' \in Seq(Jobs)
  BY <1>1, <1>3 DEF SagaInv, TypeOK
<1>5. /\ Grows
      /\ OneLedgerRowPerArchive'
      /\ \E i \in DOMAIN ledger' : ledger'[i] = j
      /\ \A i \in DOMAIN ledger' : i \in DOMAIN ledger \/ ledger'[i] = j
  <2>1. CASE RowsOf(ledger, j) # {}
    BY <1>3, <1>4, <2>1 DEF Grows, SagaInv, OneLedgerRowPerArchive, RowsOf
  <2>2. CASE RowsOf(ledger, j) = {}
    <3>1. /\ Len(ledger') = Len(ledger) + 1 /\ Len(ledger) \in Nat
          /\ DOMAIN ledger = 1 .. Len(ledger) /\ DOMAIN ledger' = 1 .. Len(ledger')
          /\ \A i \in 1 .. Len(ledger) : ledger'[i] = ledger[i]
          /\ ledger'[Len(ledger) + 1] = j
      BY <1>1, <1>3, <1>4, <2>2
    <3>2. \A i \in DOMAIN ledger : ledger[i] # j
      BY <2>2 DEF RowsOf
    <3>3. \A i \in DOMAIN ledger' : i \in DOMAIN ledger \/ i = Len(ledger) + 1
      BY <3>1
    <3> QED BY <3>1, <3>2, <3>3 DEF Grows, SagaInv, OneLedgerRowPerArchive
  <2> QED BY <2>1, <2>2
<1>6. row \in DOMAIN ledger' /\ ledger'[row] = j /\ row \in Nat
  <2>1. PICK i \in DOMAIN ledger' : ledger'[i] = j
    BY <1>5
  <2>2. i \in Nat
    BY <1>4, <2>1
  <2>3. RowsOf(ledger', j) = {i}
    BY <1>5, <2>1 DEF RowsOf, OneLedgerRowPerArchive
  <2>4. row \in RowsOf(ledger', j)
    BY <2>2, <2>3 DEF FirstRow
  <2> QED BY <2>1, <2>2, <2>3, <2>4
<1> HIDE DEF row
<1>7. sess' = [sess EXCEPT ![s] = [sess[s] EXCEPT !.pc = "recorded", !.view = <<>>,
                                                  !.snap = [sess[s].snap EXCEPT !.row = row]]]
  BY <1>1, <1>3 DEF LedgerWrite, WithRow, row, SagaInv, TypeOK, SessType
<1>8. TypeOK'
  <2>1. sess[s].snap \in OperType
    BY <1>1 DEF SessType
  <2>2. [sess[s].snap EXCEPT !.row = row] \in OperType
    BY <1>6, <2>1 DEF OperType
  <2>3. [sess[s] EXCEPT !.pc = "recorded", !.view = <<>>, !.snap = [sess[s].snap EXCEPT !.row = row]] \in SessType
    <3>1. <<>> \in Seq(Jobs) /\ "recorded" \in Pcs
      BY DEF Pcs, Locked
    <3> QED BY <1>1, <2>2, <3>1 DEF SessType
  <2>4. sess' \in [Sessions -> SessType]
    BY <1>7, <2>3 DEF SagaInv, TypeOK
  <2> QED BY <1>3, <1>4, <2>4 DEF SagaInv, TypeOK, dbVars, outside
<1>9. /\ sess'[s].pc = "recorded" /\ sess'[s].job = j /\ sess'[s].snap.row = row
      /\ sess'[s].snap.state = sess[s].snap.state
      /\ \A t \in Sessions \ {s} : sess'[t] = sess[t] /\ sess[t].pc # "appending"
  BY <1>1, <1>7 DEF SagaInv, TypeOK, SessType, OperType, LedgerLocked
<1>10. ASSUME NEW t \in Sessions PROVE SessionFits(t)'
  <2>0. SessionFits(t)
    BY DEF SagaInv
  <2>1. CASE t = s
    BY <1>1, <1>2, <1>3, <1>6, <1>9, <2>0, <2>1 DEF SessionFits, Own, Writing
  <2>2. CASE t # s
    BY <1>3, <1>5, <1>9, <2>0, <2>2 DEF SessionFits, Own, Grows
  <2> QED BY <2>1, <2>2
<1>11. ASSUME NEW k \in Jobs PROVE OperationFits(k)' /\ Sealed(k)'
  <2>1. RowsOf(ledger, k) # {} => RowsOf(ledger', k) # {}
    BY <1>5 DEF RowsOf, Grows
  <2> QED BY <1>3, <1>5, <2>1 DEF SagaInv, OperationFits, Sealed, Own, Grows, dbVars
<1>12. LedgerLocked'
  BY <1>9 DEF SagaInv, LedgerLocked
<1>13. LedgerOnlyNamesPublished'
  BY <1>2, <1>3, <1>5 DEF SagaInv, LedgerOnlyNamesPublished, Grows
<1> QED BY <1>5, <1>8, <1>10, <1>11, <1>12, <1>13 DEF SagaInv

(* The last commit finds what it approves in place.                        *)
LEMMA CompleteCommitInv ==
    ASSUME SagaInv, NEW s \in Sessions, CompleteCommit(s) PROVE SagaInv' /\ Still
<1> DEFINE j == sess[s].job
<1>1. j \in Jobs /\ published[j] = AllFiles /\ RowsOf(ledger, j) # {} /\ oper[j] \in OperType
  BY DEF SagaInv, TypeOK, SessionFits, CompleteCommit, At, Completable, PublishedIntact, RowsOf
<1>2. PICK pc \in {"checking", "failing"} : GoTo(s, pc)
  BY DEF CompleteCommit
<1>3. /\ rows' = rows \cup {j} /\ job' = [job EXCEPT ![j] = "approved"]
      /\ oper' = [oper EXCEPT ![j] = [oper[j] EXCEPT !.state = "completed"]]
      /\ UNCHANGED <<fileVars, outside>> /\ faults' \in {faults, faults + 1}
      /\ faults' # faults => faults < MaxFaults
  BY <1>1 DEF CompleteCommit, SagaInv, TypeOK
<1>4. sess' \in [Sessions -> SessType]
  BY <1>2, GoToTyped DEF SagaInv, Pcs, Locked
<1>5. TypeOK'
  <2>1. [oper[j] EXCEPT !.state = "completed"] \in OperType
    BY <1>1 DEF OperType, OperStates
  <2>2. oper' \in [Jobs -> OperType]
    BY <1>3, <2>1 DEF SagaInv, TypeOK
  <2>3. faults' \in 0 .. MaxFaults
    BY <1>3, SagaAssumption DEF SagaInv, TypeOK
  <2> QED BY <1>1, <1>3, <1>4, <2>2, <2>3 DEF SagaInv, TypeOK, fileVars, outside, JobStates
<1>6. Still /\ OthersStay(s)
  BY <1>2, <1>3 DEF GoTo, fileVars, outside, Still, OthersStay, SagaInv, TypeOK
<1>7. sess'[s].pc = pc /\ sess'[s].job = j /\ sess'[s].snap = sess[s].snap
  BY <1>2 DEF GoTo, SagaInv, TypeOK, SessType
<1>8. SessionFits(s)' /\ sess'[s].pc # "appending"
  BY <1>1, <1>2, <1>6, <1>7 DEF SagaInv, SessionFits, Still, Own, Writing
<1>9. ASSUME NEW k \in Jobs PROVE OperationFits(k)' /\ Sealed(k)'
  <2>1. CASE k = j
    <3>1. oper'[j].row = oper[j].row /\ j \in rows'
      BY <1>1, <1>3 DEF SagaInv, TypeOK, OperType
    <3> QED BY <1>1, <1>6, <2>1, <3>1 DEF SagaInv, OperationFits, Sealed, Still, Own
  <2>2. CASE k # j
    <3>1. oper'[k] = oper[k] /\ job'[k] = job[k] /\ (k \in rows' <=> k \in rows)
      BY <1>3, <2>2 DEF SagaInv, TypeOK
    <3> QED BY <1>6, <3>1 DEF SagaInv, OperationFits, Sealed, Still, Own
  <2> QED BY <2>1, <2>2
<1> QED BY <1>5, <1>6, <1>8, <1>9, StillStep

-----------------------------------------------------------------------------
(* Every step keeps the invariant and lets the ledger grow.                *)
LEMMA NextInv ==
    ASSUME SagaInv, [Next]_vars PROVE SagaInv' /\ Grows
<1>1. Still => Grows
  BY DEF SagaInv, TypeOK, Still, Grows
<1>2. ledger' = ledger => Grows
  BY DEF SagaInv, TypeOK, Grows
<1>3. ASSUME NEW s \in Sessions, Request(s) PROVE SagaInv' /\ Grows
  BY <1>1, <1>3, ApproveInv, TakeUpInv, OutsideInv DEF Request
<1>4. ASSUME NEW s \in Sessions, SagaStep(s) PROVE SagaInv' /\ Grows
  BY <1>1, <1>2, <1>4, BeginInv, StageFileInv, StageRefusedInv, StageMismatchInv,
     StageCommitInv, PublishCheckInv,
     PublishFileInv, PublishMissingInv, PublishCommitInv, LedgerReadInv, LedgerWriteInv,
     LedgerCommitInv, CompleteCommitInv, CompleteRefusedInv, CheckCompletedInv, CheckRefusedInv,
     CheckStoppedInv, FoundCompletedInv, FoundInconsistentInv, FailureInv DEF SagaStep
<1>5. ASSUME NEW s \in Sessions, Lock(s) PROVE SagaInv' /\ Grows
  BY <1>1, <1>5, LockInv
<1>6. ASSUME NEW j \in Jobs, Recovery(j) PROVE SagaInv' /\ Grows
  BY <1>1, <1>6, TakeUpInv DEF Recovery
<1>7. CASE Environment
  BY <1>1, <1>7, IoErrorInv, ReadErrorInv, CrashInv, OutsideInv DEF Environment
<1>8. CASE UNCHANGED vars
  <2>1. TypeOK' /\ Still /\ UNCHANGED <<sess, dbVars>>
    BY <1>8 DEF vars, SagaInv, TypeOK, Still, dbVars, fileVars, outside
  <2>2. \A s \in Sessions : SessionFits(s)'
    BY <2>1 DEF SagaInv, SessionFits, Still, Own
  <2>3. \A j \in Jobs : OperationFits(j)' /\ Sealed(j)'
    BY <2>1, RowsStay
  <2>4. LedgerLocked' /\ OneLedgerRowPerArchive' /\ LedgerOnlyNamesPublished'
    BY <2>1 DEF SagaInv, LedgerLocked, Still, OneLedgerRowPerArchive, LedgerOnlyNamesPublished
  <2> QED BY <1>1, <2>1, <2>2, <2>3, <2>4 DEF SagaInv
<1> QED BY <1>3, <1>4, <1>5, <1>6, <1>7, <1>8 DEF Next

(* The strengthened invariant of the saga: copies of rows may be late, but
   what they say of files and ledger stays true.                           *)
THEOREM SagaInvariant == Spec => []SagaInv
<1>1. SagaInv /\ [Next]_vars => SagaInv'
  BY NextInv
<1> QED BY InitInv, <1>1, PTL DEF Spec

(* The ledger has one row for each archive, names only archives whose files
   are published, and an operation's index is that of its row, for any
   number of sessions that seal at once with whatever copies they hold.    *)
THEOREM LedgerSound == Spec => []LedgerIsSound
<1>1. SagaInv => LedgerIsSound
  BY DEF SagaInv, LedgerIsSound, OperationFits, Own, PersistedRowIsItsOwn
<1> QED BY SagaInvariant, <1>1, PTL

(* An approved job is sealed: files, ledger row and database rows.         *)
THEOREM ApprovedAreSealed == Spec => []ApprovedIsSealed
<1>1. SagaInv => ApprovedIsSealed
  BY DEF SagaInv, Sealed, ApprovedIsSealed
<1> QED BY SagaInvariant, <1>1, PTL

(* A ledger row keeps its index and its predecessors.                      *)
THEOREM LedgerGrows == Spec => LedgerOnlyGrows
<1>1. SagaInv /\ [Next]_vars =>
          [/\ Len(ledger) <= Len(ledger')
           /\ \A i \in DOMAIN ledger : ledger'[i] = ledger[i]]_vars
  BY NextInv DEF Grows
<1> QED BY SagaInvariant, <1>1, PTL DEF Spec, LedgerOnlyGrows

-----------------------------------------------------------------------------
(***************************************************************************)
(* One session at a time on a job.                                         *)
(*                                                                         *)
(* Two sessions on one job may take a completed operation back (a stale    *)
(* copy is written over the row).  As long as no two sessions are on the   *)
(* same job, the copy a session holds IS the row, and each block of        *)
(* resume_seal_operation runs on the state it was written for.  What is    *)
(* proved here has []Apart as its hypothesis, and Apart is certain when    *)
(* there is one session.                                                   *)
(***************************************************************************)

\* No two sessions are on the same job.
Apart ==
    \A s, t \in Sessions : sess[s].job = sess[t].job /\ sess[s].job \in Jobs => s = t

\* The pcs at which a session works on its copy of the row.
Held == Pcs \ {"idle", "checking", "failing", "integrity"}

\* The states of the row at each pc.
StatesAt(pc) ==
    CASE pc = "waiting" -> OperStates \ {"none"}
      [] pc = "staging" -> {"requested", "artifacts_staged"}
      [] pc \in {"publishing", "moving"} -> {"artifacts_staged"}
      [] pc \in {"ledger", "appending", "recorded"} -> {"files_published"}
      [] pc = "completing" -> {"ledger_appended"}
      [] pc = "checking" -> {"completed"}
      [] pc \in {"failing", "integrity"} -> Resumable \cup {"completed"}
      [] OTHER -> Resumable

\* What a session holds is the row, but for the ledger index before its commit.
Follows(s) ==
    LET pc == sess[s].pc
        row == oper[sess[s].job]
        snap == sess[s].snap
    IN  /\ pc # "idle" => row.state \in StatesAt(pc)
        /\ pc \in Held /\ ~(pc = "waiting" /\ sess[s].fresh) =>
             /\ snap.state = row.state /\ snap.error = row.error /\ snap.digests = row.digests
             /\ pc # "recorded" => snap.row = row.row
        /\ pc \in Held \ {"waiting", "begin"} => ~row.error
        /\ pc = "recorded" => snap.row # 0
        /\ pc \in {"waiting", "begin"} => sess[s].n = 0
        /\ pc = "integrity" /\ row.state = "completed" => Suspect(sess[s].job)

\* What the state of a row says of its columns, its job and the audit rows.
RowTells(j) ==
    /\ JobAgrees(j)
    /\ oper[j].state \in {"artifacts_staged"} \cup Late => oper[j].digests
    /\ oper[j].state \in {"ledger_appended", "completed"} => oper[j].row # 0
    /\ oper[j].state = "completed" => j \in rows /\ ~oper[j].error

\* Nothing a session counted on is missing.
Repairable(s) ==
    LET j == sess[s].job IN
    /\ sess[s].pc = "integrity" => Suspect(j)
    /\ sess[s].pc = "staging" => \A i \in 1 .. sess[s].n : Files[i] \in staged[j]
    /\ sess[s].pc = "moving" => AllFiles \subseteq staged[j] \cup published[j]

Quiet == NothingNeedsAttention /\ \A s \in Sessions : Repairable(s)

SerialInv ==
    /\ \A j \in Jobs : RowTells(j)
    /\ \A s \in Sessions : Follows(s)
    /\ ~Meddling => Quiet

\* A completed operation stays so in this step, but for one of a suspect job.
Final ==
    \A j \in Jobs :
      oper[j].state = "completed" => oper'[j].state = "completed" \/ Suspect(j)

\* Once suspect, a job stays suspect.
Wary == misread \subseteq misread' /\ changed \subseteq changed'

(* The initial states.                                                     *)
LEMMA SerialInit == Init => SerialInv
<1> SUFFICES ASSUME Init PROVE SerialInv
  OBVIOUS
<1>1. ASSUME NEW j \in Jobs PROVE RowTells(j) /\ oper[j].state # "manual_attention"
  BY DEF Init, RowTells, JobAgrees, NoOperation, Resumable, Late
<1>2. ASSUME NEW s \in Sessions PROVE Follows(s) /\ Repairable(s)
  BY DEF Init, Follows, Repairable, Held, Idle
<1> QED BY <1>1, <1>2 DEF SerialInv, Quiet, NothingNeedsAttention

\* A step that is about no job but j.
Leaves(j) ==
    \A k \in Jobs \ {j} :
      /\ oper'[k] = oper[k] /\ job'[k] = job[k] /\ (k \in rows' <=> k \in rows)
      /\ staged'[k] = staged[k] /\ published'[k] = published[k]

\* What is left to show of a step of session s on job j.
Goes(s, j) ==
    /\ RowTells(j)' /\ Follows(s)'
    /\ ~Meddling => /\ Repairable(s)'
                    /\ oper'[j].state = "manual_attention" => Suspect(j)'
    /\ oper[j].state = "completed" => oper'[j].state = "completed" \/ Suspect(j)

(* A suspect job stays suspect.                                            *)
LEMMA SuspectStays == ASSUME Wary, NEW j PROVE Suspect(j) => Suspect(j)'
  BY DEF Wary, Suspect, RecordsChanged

(* A step of a session on a job that no other session is on.               *)
LEMMA SerialStep ==
    ASSUME SagaInv, SerialInv, Wary, NEW s \in Sessions, NEW j \in Jobs, OthersStay(s),
           \A t \in Sessions \ {s} : sess[t].job # j, Leaves(j), Goes(s, j)
    PROVE  SerialInv' /\ Final
<1>1. ASSUME NEW k \in Jobs \ {j}
      PROVE  /\ RowTells(k)' /\ oper'[k].state = oper[k].state
  BY SuspectStays DEF Leaves, SerialInv, RowTells, JobAgrees
<1>2. ASSUME NEW t \in Sessions \ {s}, sess[t].pc # "idle"
      PROVE  Follows(t)' /\ (Repairable(t) => Repairable(t)')
  <2>1. sess[t].job \in Jobs \ {j} /\ sess'[t] = sess[t]
    BY <1>2 DEF SagaInv, SessionFits, OthersStay
  <2> QED BY <2>1 DEF Leaves, SerialInv, Follows, Repairable, Suspect, RecordsChanged, Wary
<1>3. ASSUME NEW t \in Sessions \ {s}, sess[t].pc = "idle"
      PROVE  Follows(t)' /\ Repairable(t)'
  BY <1>3 DEF OthersStay, Follows, Repairable, Held
<1>4. /\ \A k \in Jobs : RowTells(k)'
      /\ Final
  BY <1>1 DEF Goes, Final
<1>5. \A t \in Sessions : Follows(t)'
  BY <1>2, <1>3 DEF Goes
<1>6. ~Meddling => Quiet'
  BY <1>1, <1>2, <1>3, SuspectStays DEF Goes, SerialInv, Quiet, NothingNeedsAttention
<1> QED BY <1>4, <1>5, <1>6 DEF SerialInv

(* A session that is under way has its job to itself.                      *)
LEMMA OwnStep ==
    ASSUME SagaInv, SerialInv, Wary, Apart, NEW s \in Sessions, NEW j \in Jobs, sess[s].job = j,
           OthersStay(s), Leaves(j), Goes(s, j)
    PROVE  SerialInv' /\ Final
<1>1. \A t \in Sessions \ {s} : sess[t].job # j
  BY DEF Apart
<1> QED BY <1>1, SerialStep

(* Where a session goes on.                                                *)
LEMMA GoesOn ==
    ASSUME TypeOK, NEW s \in Sessions, NEW pc, GoTo(s, pc)
    PROVE  /\ OthersStay(s)
           /\ sess'[s].pc = pc /\ sess'[s].n = 0 /\ sess'[s].job = sess[s].job
           /\ sess'[s].snap = sess[s].snap /\ sess'[s].fresh = sess[s].fresh
  BY DEF GoTo, OthersStay, TypeOK, SessType

(* A session that ends.                                                    *)
LEMMA Ends ==
    ASSUME TypeOK, NEW s \in Sessions, sess' = [sess EXCEPT ![s] = Idle]
    PROVE  OthersStay(s) /\ sess'[s].pc = "idle" /\ Follows(s)' /\ Repairable(s)'
<1>1. OthersStay(s) /\ sess'[s] = Idle
  BY DEF OthersStay, TypeOK
<1> QED BY <1>1 DEF Follows, Repairable, Held, Idle

(* A step that writes no row.                                              *)
LEMMA RowsTell ==
    ASSUME SagaInv, SerialInv, Wary, UNCHANGED dbVars, NEW j \in Jobs
    PROVE  /\ RowTells(j)' /\ RowTells(j) /\ oper'[j] = oper[j]
           /\ ~Meddling => (oper'[j].state = "manual_attention" => Suspect(j)')
  BY SuspectStays DEF SerialInv, RowTells, JobAgrees, dbVars, Quiet, NothingNeedsAttention

(* An unfinished session's row and files, before the step.                 *)
LEMMA Before ==
    ASSUME SagaInv, SerialInv, NEW s \in Sessions, sess[s].pc # "idle"
    PROVE  /\ sess[s] \in SessType /\ Follows(s) /\ SessionFits(s)
           /\ ~Meddling => Repairable(s)
           /\ \E j \in Jobs : /\ sess[s].job = j /\ RowTells(j) /\ OperationFits(j)
                            /\ oper[j] \in OperType
  BY DEF SagaInv, TypeOK, SessionFits, SerialInv, Quiet

(* What a row is after one column of it was written.                       *)
LEMMA StateColumn ==
    ASSUME NEW o \in OperType, NEW x, NEW c, c = [o EXCEPT !.state = x]
    PROVE  c.state = x /\ c.error = o.error /\ c.digests = o.digests /\ c.row = o.row
  BY DEF OperType

LEMMA ErrorColumn ==
    ASSUME NEW o \in OperType, NEW x \in BOOLEAN, NEW c, c = [o EXCEPT !.error = x]
    PROVE  c.state = o.state /\ c.error = x /\ c.digests = o.digests /\ c.row = o.row
  BY DEF OperType

LEMMA RowColumn ==
    ASSUME NEW o \in OperType, NEW x, NEW c, c = [o EXCEPT !.row = x]
    PROVE  c.state = o.state /\ c.error = o.error /\ c.digests = o.digests /\ c.row = x
  BY DEF OperType

(* A step that writes no row, of a session that is under way.              *)
LEMMA FileStep ==
    ASSUME SagaInv, SerialInv, Wary, Apart, NEW s \in Sessions, NEW j \in Jobs, sess[s].job = j,
           OthersStay(s), UNCHANGED dbVars, Leaves(j), Follows(s)', ~Meddling => Repairable(s)'
    PROVE  SerialInv' /\ Final
<1>1. Goes(s, j)
  BY RowsTell DEF Goes
<1> QED BY <1>1, OwnStep

-----------------------------------------------------------------------------
(* Requests and recoveries: a job in review has no operation and no session. *)
LEMMA ApproveSerial ==
    ASSUME SagaInv, SerialInv, Wary, Apart', NEW s \in Sessions, NEW j \in Jobs, Approve(s, j)
    PROVE  SerialInv' /\ Final
<1> DEFINE requested == [NoOperation EXCEPT !.state = "requested"]
           waiting == [Idle EXCEPT !.pc = "waiting", !.job = j, !.snap = requested]
<1>1. sess'[s] = waiting /\ OthersStay(s)
  BY DEF Approve, OthersStay, SagaInv, TypeOK
<1>2. /\ oper'[j] = requested /\ job'[j] = "sealing" /\ rows' = rows
      /\ Leaves(j)
  BY DEF Approve, Leaves, SagaInv, TypeOK, fileVars, outside
<1>3. /\ requested.state = "requested" /\ ~requested.error /\ ~requested.digests
      /\ requested.row = 0
  BY DEF NoOperation
<1>4. /\ sess'[s].pc = "waiting" /\ sess'[s].job = j /\ sess'[s].snap = requested
      /\ sess'[s].n = 0
  BY <1>1 DEF Idle
<1>5. oper[j].state # "completed"
  BY DEF Approve, SerialInv, RowTells, JobAgrees
<1>6. \A t \in Sessions \ {s} : sess[t].job # j
  BY <1>1, <1>4 DEF Apart, OthersStay
<1>7. RowTells(j)' /\ oper'[j].state # "manual_attention"
  BY <1>2, <1>3 DEF RowTells, JobAgrees, Resumable, Late
<1>8. Follows(s)' /\ Repairable(s)'
  BY <1>2, <1>3, <1>4 DEF Follows, Repairable, StatesAt, OperStates, Resumable
<1> QED BY <1>1, <1>2, <1>5, <1>6, <1>7, <1>8, SerialStep DEF Goes

LEMMA RejectSerial ==
    ASSUME SagaInv, SerialInv, Wary, NEW s \in Sessions, NEW j \in Jobs, Reject(s, j)
    PROVE  SerialInv' /\ Final
<1>1. /\ \A k \in Jobs : job'[k] = IF k = j THEN "rejected" ELSE job[k]
      /\ UNCHANGED <<oper, rows, staged, published, sess>>
  BY DEF Reject, fileVars, outside, SagaInv, TypeOK
<1>2. \A k \in Jobs : RowTells(k)'
  BY <1>1, SuspectStays DEF Reject, SerialInv, RowTells, JobAgrees
<1>3. \A t \in Sessions : Follows(t)' /\ (Repairable(t) => Repairable(t)')
  BY <1>1 DEF SerialInv, Follows, Repairable, Suspect, RecordsChanged, Wary
<1> QED BY <1>1, <1>2, <1>3, SuspectStays DEF SerialInv, Final, Quiet, NothingNeedsAttention

\* The row is read by the request, or will be read under the lock.
LEMMA TakeUpSerial ==
    ASSUME SagaInv, SerialInv, Wary, Apart', NEW s \in Sessions, NEW j \in Jobs,
           RepeatApproval(s, j) \/ StartRecovery(s, j)
    PROVE  SerialInv' /\ Final
<1>1. PICK waiting : /\ waiting \in {[Idle EXCEPT !.pc = "waiting", !.job = j, !.snap = oper[j]],
                                     [Idle EXCEPT !.pc = "waiting", !.job = j, !.fresh = TRUE]}
                     /\ sess' = [sess EXCEPT ![s] = waiting]
  BY DEF RepeatApproval, StartRecovery
<1>2. sess'[s] = waiting /\ OthersStay(s)
  BY <1>1 DEF OthersStay, SagaInv, TypeOK
<1>3. /\ sess'[s].pc = "waiting" /\ sess'[s].job = j
      /\ sess'[s].fresh \/ sess'[s].snap = oper[j]
      /\ sess'[s].n = 0
  BY <1>1, <1>2 DEF Idle
<1>4. \A t \in Sessions \ {s} : sess[t].job # j
  BY <1>2, <1>3 DEF Apart, OthersStay
<1>5. UNCHANGED dbVars /\ Leaves(j)
  BY DEF RepeatApproval, StartRecovery, dbVars, fileVars, outside, Leaves
<1>6. oper[j].state \in OperStates \ {"none"}
  BY DEF RepeatApproval, StartRecovery, SerialInv, RowTells, JobAgrees, OperStates, Resumable
<1>7. Follows(s)' /\ Repairable(s)'
  BY <1>3, <1>5, <1>6, RowsTell DEF Follows, Repairable, StatesAt
<1> QED BY <1>2, <1>4, <1>5, <1>7, RowsTell, SerialStep DEF Goes

(* Whether read under the lock or before, the row is the one in the database. *)
LEMMA LockSerial ==
    ASSUME SagaInv, SerialInv, Wary, Apart, NEW s \in Sessions, Lock(s)
    PROVE  SerialInv' /\ Final
<1>1. UNCHANGED <<dbVars, staged, published>> /\ sess[s].pc = "waiting" /\ Follows(s)
  BY Before DEF Lock, At, fileVars, outside
<1>2. PICK j \in Jobs : sess[s].job = j /\ oper[j] \in OperType
  BY <1>1, Before
<1>3. Leaves(j) /\ oper'[j] = oper[j]
  BY <1>1 DEF dbVars, Leaves
<1>4. PICK held :
        /\ held = IF sess[s].fresh THEN oper[j] ELSE sess[s].snap
        /\ \/ sess' = [sess EXCEPT ![s] = Idle]
           \/ /\ held.state # "manual_attention"
              /\ sess' = [sess EXCEPT ![s] =
                           [sess[s] EXCEPT !.snap = held,
                                           !.pc = IF held.state = "completed" THEN "checking"
                                                  ELSE "begin"]]
  BY <1>2 DEF Lock
<1>5. /\ held.state = oper[j].state /\ held.error = oper[j].error
      /\ held.digests = oper[j].digests /\ held.row = oper[j].row
      /\ oper[j].state \in OperStates \ {"none"}
  BY <1>1, <1>2, <1>4 DEF Follows, Held, Pcs, StatesAt
<1>6. CASE sess' = [sess EXCEPT ![s] = Idle]
  <2>1. OthersStay(s) /\ Follows(s)' /\ Repairable(s)'
    BY <1>6, Ends DEF SagaInv
  <2> QED BY <1>1, <1>2, <1>3, <2>1, FileStep
<1>7. CASE sess' # [sess EXCEPT ![s] = Idle]
  <2>1. PICK pc : /\ pc = IF held.state = "completed" THEN "checking" ELSE "begin"
                  /\ sess' = [sess EXCEPT ![s] = [sess[s] EXCEPT !.snap = held, !.pc = pc]]
    BY <1>4, <1>7
  <2>2. /\ OthersStay(s) /\ sess'[s].job = j /\ sess'[s].snap = held /\ sess'[s].pc = pc
        /\ sess'[s].n = 0
    BY <1>1, <1>2, <2>1 DEF OthersStay, SagaInv, TypeOK, SessType, Follows
  <2>3. oper[j].state \in StatesAt(pc) /\ pc \in {"checking", "begin"}
    BY <1>4, <1>5, <1>7, <2>1 DEF StatesAt, OperStates
  <2>4. Follows(s)' /\ Repairable(s)'
    BY <1>3, <1>5, <2>2, <2>3 DEF Follows, Repairable, Held
  <2> QED BY <1>1, <1>2, <1>3, <2>2, <2>4, FileStep
<1> QED BY <1>6, <1>7

-----------------------------------------------------------------------------
(* The blocks of resume_seal_operation.                                    *)

(* The error of the last attempt is cleared, and the block of the state begun. *)
LEMMA BeginSerial ==
    ASSUME SagaInv, SerialInv, Wary, Apart, NEW s \in Sessions, Begin(s)
    PROVE  SerialInv' /\ Final
<1>1. /\ sess[s].pc = "begin" /\ sess[s] \in SessType /\ Follows(s)
      /\ UNCHANGED <<job, rows, staged, published>>
  BY Before DEF Begin, At, fileVars, outside
<1>2. PICK j \in Jobs : sess[s].job = j /\ oper[j] \in OperType /\ RowTells(j)
  BY <1>1, Before
<1>3. PICK e \in BOOLEAN : e = (oper[j].error /\ ~sess[s].snap.error)
  BY <1>1, <1>2 DEF OperType, SessType
<1>4. oper' = [oper EXCEPT ![j] = [oper[j] EXCEPT !.error = e]]
  BY <1>2, <1>3 DEF Begin, SagaInv, TypeOK
<1>5. /\ Leaves(j)
      /\ oper'[j].state = oper[j].state /\ oper'[j].error = e
      /\ oper'[j].digests = oper[j].digests /\ oper'[j].row = oper[j].row
  BY <1>1, <1>2, <1>4 DEF SagaInv, TypeOK, OperType, Leaves
<1>6. PICK snap : /\ snap = [sess[s].snap EXCEPT !.error = FALSE]
                  /\ snap.state = sess[s].snap.state /\ snap.error = FALSE
                  /\ snap.digests = sess[s].snap.digests /\ snap.row = sess[s].snap.row
  <2>1. sess[s].snap \in OperType
    BY <1>1 DEF SessType
  <2>2. PICK c : c = [sess[s].snap EXCEPT !.error = FALSE]
    OBVIOUS
  <2>3. /\ c.state = sess[s].snap.state /\ c.error = FALSE
        /\ c.digests = sess[s].snap.digests /\ c.row = sess[s].snap.row
    BY <2>1, <2>2, ErrorColumn
  <2> QED BY <2>2, <2>3
<1>7. PICK pc : pc = NextPc(sess[s].snap.state)
  OBVIOUS
<1>8. sess' = [sess EXCEPT ![s] = [sess[s] EXCEPT !.snap = snap, !.pc = pc]]
  BY <1>1, <1>6, <1>7 DEF Begin, SagaInv, TypeOK, SessType
<1>9. OthersStay(s) /\ sess'[s].job = j /\ sess'[s].snap = snap /\ sess'[s].pc = pc
      /\ sess'[s].n = sess[s].n
  BY <1>1, <1>2, <1>8 DEF OthersStay, SagaInv, TypeOK, SessType
<1>10. /\ snap.state = oper[j].state /\ snap.error = e /\ e = FALSE
       /\ snap.digests = oper[j].digests /\ snap.row = oper[j].row
       /\ oper[j].state \in Resumable /\ sess[s].n = 0
  BY <1>1, <1>2, <1>3, <1>6 DEF Follows, Held, Pcs, Locked, StatesAt
<1>11. /\ oper[j].state \in StatesAt(pc)
       /\ pc \in {"staging", "publishing", "ledger", "completing"}
  BY <1>6, <1>7, <1>10 DEF NextPc, StatesAt, Resumable
<1>12. Follows(s)' /\ Repairable(s)'
  BY <1>5, <1>9, <1>10, <1>11 DEF Follows, Repairable, Held
<1>13. RowTells(j)'
  BY <1>1, <1>2, <1>5, <1>10 DEF RowTells, JobAgrees
<1>14. oper'[j].state # "manual_attention"
  BY <1>5, <1>10 DEF Resumable
<1>15. Goes(s, j)
  BY <1>5, <1>12, <1>13, <1>14 DEF Goes
<1> QED BY <1>2, <1>5, <1>9, <1>15, OwnStep

(* A file is staged after the ones before it.                              *)
LEMMA StageFileSerial ==
    ASSUME SagaInv, SerialInv, Wary, Apart, NEW s \in Sessions, StageFile(s)
    PROVE  SerialInv' /\ Final
<1>1. /\ sess[s].pc = "staging" /\ sess[s] \in SessType /\ Follows(s)
      /\ ~Meddling => Repairable(s)
      /\ UNCHANGED <<dbVars, published>>
  BY Before DEF StageFile, At
<1>2. PICK j \in Jobs : sess[s].job = j /\ oper[j] \in OperType
  BY <1>1, Before
<1>3. PICK n \in 1 .. 3 :
        /\ n = sess[s].n + 1
        /\ staged' = [staged EXCEPT ![j] = staged[j] \cup {Files[n]}]
        /\ sess' = [sess EXCEPT ![s] = [sess[s] EXCEPT !.n = n]]
  <2>1. sess[s].n + 1 \in 1 .. 3
    BY <1>1, ThreeFiles DEF StageFile, SessType
  <2> QED BY <1>2, <2>1 DEF StageFile
<1>4. /\ OthersStay(s)
      /\ sess'[s].job = j /\ sess'[s].pc = "staging" /\ sess'[s].n = n
      /\ sess'[s].snap = sess[s].snap /\ sess'[s].fresh = sess[s].fresh
  BY <1>1, <1>2, <1>3 DEF OthersStay, SagaInv, TypeOK, SessType
<1>5. /\ Leaves(j) /\ oper'[j] = oper[j]
      /\ staged'[j] = staged[j] \cup {Files[n]}
  BY <1>1, <1>3 DEF Leaves, dbVars, SagaInv, TypeOK
<1>6. Follows(s)'
  BY <1>1, <1>2, <1>4, <1>5 DEF Follows
<1>7. ~Meddling => Repairable(s)'
  <2>1. \A i \in 1 .. n : i \in 1 .. sess[s].n \/ i = n
    BY <1>1, <1>3 DEF SessType
  <2> QED BY <1>1, <1>2, <1>4, <1>5, <2>1 DEF Repairable
<1> QED BY <1>1, <1>2, <1>4, <1>5, <1>6, <1>7, FileStep

(* A session that fails has a row in one of the states of the saga.        *)
LEMMA FailsSerial ==
    ASSUME SagaInv, SerialInv, Wary, Apart, NEW s \in Sessions, GoTo(s, "failing"),
           sess[s].pc \in Locked \ {"failing", "integrity"},
           UNCHANGED <<dbVars, staged, published>>
    PROVE  SerialInv' /\ Final
<1>1. Follows(s) /\ sess[s] \in SessType
  BY Before DEF Locked
<1>2. PICK j \in Jobs : sess[s].job = j
  BY Before DEF Locked
<1>3. /\ OthersStay(s) /\ sess'[s].pc = "failing" /\ sess'[s].job = j
  BY <1>2, GoesOn DEF SagaInv
<1>4. Leaves(j) /\ oper'[j] = oper[j]
  BY DEF Leaves, dbVars
<1>5. oper[j].state \in Resumable \cup {"completed"}
  BY <1>1, <1>2 DEF Follows, StatesAt, Resumable, Locked
<1>6. Follows(s)' /\ Repairable(s)'
  BY <1>3, <1>4, <1>5 DEF Follows, Repairable, StatesAt, Held
<1> QED BY <1>2, <1>3, <1>4, <1>6, FileStep

(* A commit leaves the row as the session holds it.                        *)
LEMMA CommitSerial ==
    ASSUME SagaInv, SerialInv, Wary, Apart, NEW s \in Sessions, NEW j \in Jobs, sess[s].job = j,
           sess[s].pc \in {"staging", "moving", "recorded"},
           NEW held, NEW next \in {"publishing", "moving", "ledger", "completing"},
           CommitOperation(s, held, next), UNCHANGED <<job, rows, staged, published>>,
           held.error = sess[s].snap.error, held.digests = TRUE, held.row = sess[s].snap.row,
           held.state \in StatesAt(next),
           next = "completing" => held.row # 0,
           ~Meddling /\ next = "moving" => AllFiles \subseteq staged[j] \cup published[j]
    PROVE  SerialInv' /\ Final
<1>1. sess[s] \in SessType /\ Follows(s) /\ oper[j] \in OperType /\ RowTells(j)
  BY Before
<1>2. /\ sess[s].snap.state = oper[j].state /\ sess[s].snap.error = oper[j].error
      /\ ~oper[j].error
      /\ sess[s].snap.row # 0 \/ sess[s].snap.row = oper[j].row
      /\ oper[j].state \in {"requested", "artifacts_staged", "files_published"}
  BY <1>1 DEF Follows, Held, Pcs, Locked, StatesAt
<1>3. held.state \in {"artifacts_staged", "files_published", "ledger_appended"}
  BY DEF StatesAt
<1>4. PICK row : /\ row.state = held.state /\ row.error = held.error
                 /\ row.digests = TRUE /\ row.row = held.row
                 /\ oper' = [oper EXCEPT ![j] = row]
  <2>1. ASSUME NEW o \in OperType, NEW x, NEW y, NEW z
        PROVE  LET c == [o EXCEPT !.state = x, !.digests = y, !.row = z]
               IN  /\ c.state = x /\ c.error = o.error /\ c.digests = y /\ c.row = z
    BY DEF OperType
  <2>2. PICK x : x = IF held.state = sess[s].snap.state THEN oper[j].state ELSE held.state
    OBVIOUS
  <2>3. PICK y : y = (oper[j].digests \/ held.digests)
    OBVIOUS
  <2>4. PICK z : z = IF held.row = 0 THEN oper[j].row ELSE held.row
    OBVIOUS
  <2>5. oper' = [oper EXCEPT ![j] = [oper[j] EXCEPT !.state = x, !.digests = y, !.row = z]]
    BY <1>1, <2>2, <2>3, <2>4 DEF CommitOperation, SagaInv, TypeOK, OperType
  <2>6. x = held.state /\ y = TRUE /\ z = held.row
    BY <1>2, <2>2, <2>3, <2>4
  <2>7. PICK row : row = [oper[j] EXCEPT !.state = x, !.digests = y, !.row = z]
    OBVIOUS
  <2>8. row.state = x /\ row.error = oper[j].error /\ row.digests = y /\ row.row = z
    BY <1>1, <2>1, <2>7
  <2> QED BY <1>2, <2>5, <2>6, <2>7, <2>8
<1>5. Leaves(j) /\ oper'[j] = row
  BY <1>4 DEF Leaves, SagaInv, TypeOK
<1>6. sess' = [sess EXCEPT ![s] = [sess[s] EXCEPT !.snap = held, !.pc = next, !.n = 0]]
  BY <1>1 DEF CommitOperation, SagaInv, TypeOK, SessType
<1>7. /\ OthersStay(s)
      /\ sess'[s].job = j /\ sess'[s].snap = held /\ sess'[s].pc = next
  BY <1>1, <1>6 DEF OthersStay, SagaInv, TypeOK, SessType
<1>8. Follows(s)'
  BY <1>2, <1>4, <1>5, <1>7 DEF Follows, Held
<1>9. ~Meddling => Repairable(s)'
  BY <1>7 DEF Repairable
<1>10. RowTells(j)'
  <2>1. row.state = "ledger_appended" => row.row # 0
    BY <1>4 DEF StatesAt
  <2>2. job'[j] = job[j] /\ job[j] = "sealing"
    BY <1>1, <1>2 DEF RowTells, JobAgrees, Resumable
  <2> QED BY <1>2, <1>3, <1>4, <1>5, <2>1, <2>2 DEF RowTells, JobAgrees, Resumable, Late
<1>11. Goes(s, j)
  BY <1>2, <1>3, <1>4, <1>5, <1>8, <1>9, <1>10 DEF Goes
<1> QED BY <1>5, <1>7, <1>11, OwnStep

LEMMA StageCommitSerial ==
    ASSUME SagaInv, SerialInv, Wary, Apart, NEW s \in Sessions, StageCommit(s)
    PROVE  SerialInv' /\ Final
<1>1. /\ sess[s].pc = "staging" /\ sess[s] \in SessType /\ Follows(s)
      /\ ~Meddling => Repairable(s)
      /\ sess[s].n = 3 /\ UNCHANGED <<job, rows, staged, published>>
  BY Before, ThreeFiles DEF StageCommit, At, fileVars, outside
<1>2. PICK j \in Jobs : sess[s].job = j
  BY <1>1, Before
<1>3. PICK next : /\ next = IF sess[s].snap.state = "requested" THEN NextPc("artifacts_staged")
                            ELSE "moving"
                  /\ next \in {"publishing", "moving"}
  BY DEF NextPc
<1>4. PICK held : held = [sess[s].snap EXCEPT !.state = "artifacts_staged", !.digests = TRUE]
  OBVIOUS
<1>5. CommitOperation(s, held, next)
  BY <1>3, <1>4 DEF StageCommit
<1>6. /\ held.state = "artifacts_staged" /\ held.digests = TRUE
      /\ held.error = sess[s].snap.error /\ held.row = sess[s].snap.row
  <2>1. ASSUME NEW o \in OperType
        PROVE  LET c == [o EXCEPT !.state = "artifacts_staged", !.digests = TRUE]
               IN  /\ c.state = "artifacts_staged" /\ c.error = o.error
                   /\ c.digests = TRUE /\ c.row = o.row
    BY DEF OperType
  <2>2. sess[s].snap \in OperType
    BY <1>1 DEF SessType
  <2> QED BY <1>4, <2>1, <2>2
<1>7. ~Meddling => AllFiles \subseteq staged[j] \cup published[j]
  BY <1>1, <1>2, ThreeFiles DEF Repairable
<1>8. held.state \in StatesAt(next)
  BY <1>3, <1>6 DEF StatesAt
<1> QED BY <1>1, <1>2, <1>3, <1>5, <1>6, <1>7, <1>8, CommitSerial

LEMMA PublishCommitSerial ==
    ASSUME SagaInv, SerialInv, Wary, Apart, NEW s \in Sessions, PublishCommit(s)
    PROVE  SerialInv' /\ Final
<1>1. /\ sess[s].pc = "moving" /\ sess[s] \in SessType /\ Follows(s)
      /\ UNCHANGED <<job, rows, staged, published>>
  BY Before DEF PublishCommit, At, fileVars, outside
<1>2. PICK j \in Jobs : sess[s].job = j /\ RowTells(j)
  BY <1>1, Before
<1>3. PICK held : held = [sess[s].snap EXCEPT !.state = "files_published"]
  OBVIOUS
<1>4. CommitOperation(s, held, "ledger")
  BY <1>3 DEF PublishCommit, NextPc
<1>5. /\ held.state = "files_published" /\ held.digests = sess[s].snap.digests
      /\ held.error = sess[s].snap.error /\ held.row = sess[s].snap.row
  <2>1. sess[s].snap \in OperType
    BY <1>1 DEF SessType
  <2> QED BY <1>3, <2>1, StateColumn
<1>6. held.digests = TRUE
  <2>1. oper[j].digests /\ sess[s].snap.digests = oper[j].digests
    BY <1>1, <1>2 DEF Follows, Held, Pcs, Locked, StatesAt, RowTells, JobAgrees
  <2>2. sess[s].snap.digests \in BOOLEAN
    BY <1>1 DEF SessType, OperType
  <2> QED BY <1>5, <2>1, <2>2
<1>7. held.state \in StatesAt("ledger")
  BY <1>5 DEF StatesAt
<1> QED BY <1>1, <1>2, <1>4, <1>5, <1>6, <1>7, CommitSerial

LEMMA LedgerCommitSerial ==
    ASSUME SagaInv, SerialInv, Wary, Apart, NEW s \in Sessions, LedgerCommit(s)
    PROVE  SerialInv' /\ Final
<1>1. /\ sess[s].pc = "recorded" /\ sess[s] \in SessType /\ Follows(s)
      /\ UNCHANGED <<job, rows, staged, published>>
  BY Before DEF LedgerCommit, At, fileVars, outside
<1>2. PICK j \in Jobs : sess[s].job = j /\ RowTells(j)
  BY <1>1, Before
<1>3. PICK held : held = [sess[s].snap EXCEPT !.state = "ledger_appended"]
  OBVIOUS
<1>4. CommitOperation(s, held, "completing")
  BY <1>3 DEF LedgerCommit, NextPc
<1>5. /\ held.state = "ledger_appended" /\ held.digests = sess[s].snap.digests
      /\ held.error = sess[s].snap.error /\ held.row = sess[s].snap.row
  <2>1. sess[s].snap \in OperType
    BY <1>1 DEF SessType
  <2> QED BY <1>3, <2>1, StateColumn
<1>6. held.digests = TRUE /\ held.row # 0
  <2>1. /\ oper[j].digests /\ sess[s].snap.digests = oper[j].digests
        /\ sess[s].snap.row # 0
    BY <1>1, <1>2 DEF Follows, Held, Pcs, Locked, StatesAt, RowTells, JobAgrees, Late
  <2>2. sess[s].snap.digests \in BOOLEAN
    BY <1>1 DEF SessType, OperType
  <2> QED BY <1>5, <2>1, <2>2
<1>7. held.state \in StatesAt("completing")
  BY <1>5 DEF StatesAt
<1> QED BY <1>1, <1>2, <1>4, <1>5, <1>6, <1>7, CommitSerial

LEMMA PublishCheckSerial ==
    ASSUME SagaInv, SerialInv, Wary, Apart, NEW s \in Sessions, PublishCheck(s)
    PROVE  SerialInv' /\ Final
<1>1. /\ sess[s].pc = "publishing" /\ sess[s] \in SessType /\ Follows(s)
      /\ UNCHANGED <<dbVars, staged, published>>
  BY Before DEF PublishCheck, At, fileVars, outside
<1>2. PICK j \in Jobs : sess[s].job = j /\ RowTells(j)
  BY <1>1, Before
<1>3. sess[s].snap.digests /\ oper[j].state = "artifacts_staged"
  BY <1>1, <1>2 DEF Follows, Held, Pcs, Locked, StatesAt, RowTells, JobAgrees
<1>4. PICK pc : /\ GoTo(s, pc)
                /\ \/ pc = "staging"
                   \/ pc = "moving" /\ (staged[j] = AllFiles \/ published[j] = AllFiles)
  BY <1>2, <1>3 DEF PublishCheck, StageAgain
<1>5. /\ OthersStay(s) /\ sess'[s].pc = pc /\ sess'[s].job = j /\ sess'[s].n = 0
      /\ sess'[s].snap = sess[s].snap
  BY <1>2, <1>4, GoesOn DEF SagaInv
<1>6. /\ Leaves(j) /\ oper'[j] = oper[j]
      /\ staged'[j] = staged[j] /\ published'[j] = published[j]
  BY <1>1 DEF Leaves, dbVars
<1>7. Follows(s)'
  BY <1>1, <1>2, <1>3, <1>4, <1>5, <1>6 DEF Follows, StatesAt, Held, Pcs, Locked
<1>8. Repairable(s)'
  BY <1>4, <1>5, <1>6 DEF Repairable
<1> QED BY <1>1, <1>2, <1>5, <1>6, <1>7, <1>8, FileStep

(* A file moves from one directory to the other.                           *)
LEMMA PublishFileSerial ==
    ASSUME SagaInv, SerialInv, Wary, Apart, NEW s \in Sessions, PublishFile(s)
    PROVE  SerialInv' /\ Final
<1>1. /\ sess[s].pc = "moving" /\ sess[s] \in SessType /\ Follows(s)
      /\ ~Meddling => Repairable(s)
      /\ UNCHANGED dbVars
  BY Before DEF PublishFile, At
<1>2. PICK j \in Jobs : sess[s].job = j
  BY <1>1, Before
<1>3. PICK f : /\ staged' = [staged EXCEPT ![j] = staged[j] \ {f}]
               /\ published' = [published EXCEPT ![j] = published[j] \cup {f}]
  BY <1>2 DEF PublishFile
<1>4. sess' = [sess EXCEPT ![s] = [sess[s] EXCEPT !.n = sess[s].n + 1]]
  BY <1>1 DEF PublishFile, SagaInv, TypeOK, SessType
<1>5. /\ OthersStay(s) /\ sess'[s].pc = "moving" /\ sess'[s].job = j
      /\ sess'[s].snap = sess[s].snap
  BY <1>1, <1>2, <1>4 DEF OthersStay, SagaInv, TypeOK, SessType
<1>6. /\ Leaves(j) /\ oper'[j] = oper[j]
      /\ staged'[j] \cup published'[j] = staged[j] \cup published[j] \cup {f}
  BY <1>1, <1>3 DEF Leaves, dbVars, SagaInv, TypeOK
<1>7. Follows(s)'
  BY <1>1, <1>2, <1>5, <1>6 DEF Follows
<1>8. ~Meddling => Repairable(s)'
  BY <1>1, <1>2, <1>5, <1>6 DEF Repairable
<1> QED BY <1>1, <1>2, <1>5, <1>6, <1>7, <1>8, FileStep

(* An integrity failure is found of a suspect job, or where files were
   meddled with before the job was sealed.                                 *)
LEMMA IntegritySerial ==
    ASSUME SagaInv, SerialInv, Wary, Apart, NEW s \in Sessions, GoTo(s, "integrity"),
           sess[s].pc \in Locked \ {"integrity"}, NEW j \in Jobs, sess[s].job = j,
           Suspect(j)' \/ (Meddling /\ oper[j].state \in Resumable),
           UNCHANGED <<dbVars, staged, published>>
    PROVE  SerialInv' /\ Final
<1>1. Follows(s) /\ sess[s] \in SessType
  BY Before DEF Locked
<1>2. /\ OthersStay(s) /\ sess'[s].pc = "integrity" /\ sess'[s].job = j
  BY GoesOn DEF SagaInv
<1>3. Leaves(j) /\ oper'[j] = oper[j]
  BY DEF Leaves, dbVars
<1>4. oper[j].state \in Resumable \cup {"completed"}
  BY <1>1 DEF Follows, StatesAt, Resumable, Locked
<1>5. Follows(s)' /\ (~Meddling => Repairable(s)')
  <2>1. (oper'[j].state = "completed" \/ ~Meddling) => Suspect(j)'
    BY <1>3 DEF Resumable
  <2> QED BY <1>2, <1>3, <1>4, <2>1 DEF Follows, Repairable, StatesAt, Held
<1> QED BY <1>2, <1>3, <1>5, FileStep

(* Rows that do not fit the frozen report make their job suspect.          *)
LEMMA StageMismatchSerial ==
    ASSUME SagaInv, SerialInv, Wary, Apart, NEW s \in Sessions, StageMismatch(s)
    PROVE  SerialInv' /\ Final
<1>1. /\ sess[s].pc = "staging" /\ RecordsChanged(sess[s].job)
      /\ UNCHANGED <<dbVars, staged, published>> /\ GoTo(s, "integrity")
  BY DEF StageMismatch, At, fileVars
<1>2. PICK j \in Jobs : sess[s].job = j
  BY <1>1, Before
<1>3. Suspect(j)'
  BY <1>1, <1>2, SuspectStays DEF Suspect
<1> QED BY <1>1, <1>2, <1>3, IntegritySerial DEF Locked

(* So does a read error.                                                   *)
LEMMA ReadErrorSerial ==
    ASSUME SagaInv, SerialInv, Wary, Apart, NEW s \in Sessions, ReadError(s)
    PROVE  SerialInv' /\ Final
<1>1. /\ sess[s].pc \in Locked \ {"integrity"} /\ sess[s].job \in misread'
      /\ UNCHANGED <<dbVars, staged, published>> /\ GoTo(s, "integrity")
  BY DEF ReadError, ReadsForDamage, At, Locked, fileVars
<1>2. PICK j \in Jobs : sess[s].job = j
  BY <1>1, Before DEF Locked
<1>3. Suspect(j)'
  BY <1>1, <1>2 DEF Suspect
<1> QED BY <1>1, <1>2, <1>3, IntegritySerial

\* The files to be moved are all in one directory or the other.
LEMMA PublishMissingSerial ==
    ASSUME SagaInv, SerialInv, Wary, Apart, NEW s \in Sessions, PublishMissing(s)
    PROVE  SerialInv' /\ Final
<1>1. /\ sess[s].pc = "moving" /\ sess[s] \in SessType /\ Follows(s)
      /\ ~Meddling => Repairable(s)
      /\ UNCHANGED <<dbVars, staged, published>> /\ GoTo(s, "integrity")
  BY Before DEF PublishMissing, At, fileVars, outside
<1>2. PICK j \in Jobs : sess[s].job = j
  BY <1>1, Before
<1>3. Meddling
  <2>1. sess[s].n + 1 \in 1 .. 3
    BY <1>1, ThreeFiles DEF PublishMissing, SessType
  <2>2. Files[sess[s].n + 1] \in AllFiles
    BY <2>1, ThreeFiles
  <2> QED BY <1>1, <1>2, <2>2 DEF PublishMissing, Repairable
<1>4. oper[j].state \in Resumable
  BY <1>1, <1>2 DEF Follows, StatesAt, Resumable
<1> QED BY <1>1, <1>2, <1>3, <1>4, IntegritySerial DEF Locked

LEMMA LedgerReadSerial ==
    ASSUME SagaInv, SerialInv, Wary, Apart, NEW s \in Sessions, LedgerRead(s)
    PROVE  SerialInv' /\ Final
<1>1. /\ sess[s].pc = "ledger" /\ sess[s] \in SessType /\ Follows(s)
      /\ UNCHANGED <<dbVars, staged, published>>
  BY Before DEF LedgerRead, At, fileVars, outside
<1>2. PICK j \in Jobs : sess[s].job = j
  BY <1>1, Before
<1>3. sess' = [sess EXCEPT ![s] = [sess[s] EXCEPT !.pc = "appending", !.view = ledger]]
  BY <1>1 DEF LedgerRead, SagaInv, TypeOK, SessType
<1>4. /\ OthersStay(s) /\ sess'[s].pc = "appending" /\ sess'[s].job = j
      /\ sess'[s].snap = sess[s].snap
  BY <1>1, <1>2, <1>3 DEF OthersStay, SagaInv, TypeOK, SessType
<1>5. Leaves(j) /\ oper'[j] = oper[j]
  BY <1>1 DEF Leaves, dbVars
<1>6. Follows(s)' /\ Repairable(s)'
  BY <1>1, <1>2, <1>4, <1>5 DEF Follows, Repairable, StatesAt, Held, Pcs, Locked
<1> QED BY <1>1, <1>2, <1>4, <1>5, <1>6, FileStep

(* The index of the row is remembered, and is not zero.                    *)
LEMMA LedgerWriteSerial ==
    ASSUME SagaInv, SerialInv, Wary, Apart, NEW s \in Sessions, LedgerWrite(s)
    PROVE  SerialInv' /\ Final
<1>1. /\ sess[s].pc = "appending" /\ sess[s] \in SessType /\ Follows(s)
      /\ UNCHANGED <<dbVars, staged, published>>
  BY Before DEF LedgerWrite, At
<1>2. PICK j \in Jobs : sess[s].job = j
  BY <1>1, Before
<1>3. sess[s].view = ledger /\ ledger \in Seq(Jobs)
  BY <1>1 DEF SagaInv, TypeOK, SessionFits
<1>4. PICK row : row = FirstRow(ledger', j)
  OBVIOUS
<1>5. /\ ledger' \in Seq(Jobs) /\ \E i \in DOMAIN ledger' : ledger'[i] = j
      /\ OneLedgerRowPerArchive'
  <2>1. ledger' = IF RowsOf(ledger, j) # {} THEN ledger ELSE Append(ledger, j)
    BY <1>2, <1>3 DEF LedgerWrite, WithRow
  <2>2. OneLedgerRowPerArchive'
    BY LedgerWriteInv DEF SagaInv
  <2>3. CASE RowsOf(ledger, j) # {}
    BY <1>3, <2>1, <2>2, <2>3 DEF RowsOf
  <2>4. CASE RowsOf(ledger, j) = {}
    <3>1. ledger' \in Seq(Jobs) /\ Len(ledger) + 1 \in DOMAIN ledger'
          /\ ledger'[Len(ledger) + 1] = j
      BY <1>3, <2>1, <2>4
    <3> QED BY <2>2, <3>1
  <2> QED BY <2>3, <2>4
<1>6. row # 0
  <2>1. PICK i \in DOMAIN ledger' : ledger'[i] = j
    BY <1>5
  <2>2. i \in Nat \ {0}
    BY <1>5, <2>1
  <2>3. RowsOf(ledger', j) = {i}
    BY <1>5, <2>1 DEF RowsOf, OneLedgerRowPerArchive
  <2>4. row \in RowsOf(ledger', j)
    BY <1>4, <2>2, <2>3 DEF FirstRow
  <2> QED BY <2>2, <2>3, <2>4
<1>7. PICK snap : /\ snap = [sess[s].snap EXCEPT !.row = row]
                  /\ snap.state = sess[s].snap.state /\ snap.error = sess[s].snap.error
                  /\ snap.digests = sess[s].snap.digests /\ snap.row = row
  <2>1. sess[s].snap \in OperType
    BY <1>1 DEF SessType
  <2>2. PICK c : c = [sess[s].snap EXCEPT !.row = row]
    OBVIOUS
  <2>3. /\ c.state = sess[s].snap.state /\ c.error = sess[s].snap.error
        /\ c.digests = sess[s].snap.digests /\ c.row = row
    BY <2>1, <2>2, RowColumn
  <2> QED BY <2>2, <2>3
<1>8. sess' = [sess EXCEPT ![s] = [sess[s] EXCEPT !.pc = "recorded", !.view = <<>>,
                                                  !.snap = snap]]
  BY <1>1, <1>2, <1>4, <1>7 DEF LedgerWrite, SagaInv, TypeOK, SessType
<1>9. /\ OthersStay(s) /\ sess'[s].pc = "recorded" /\ sess'[s].job = j
      /\ sess'[s].snap = snap
  BY <1>1, <1>2, <1>8 DEF OthersStay, SagaInv, TypeOK, SessType
<1>10. Leaves(j) /\ oper'[j] = oper[j]
  BY <1>1 DEF Leaves, dbVars
<1>11. Follows(s)' /\ Repairable(s)'
  BY <1>1, <1>2, <1>6, <1>7, <1>9, <1>10
     DEF Follows, Repairable, StatesAt, Held, Pcs, Locked
<1> QED BY <1>1, <1>2, <1>9, <1>10, <1>11, FileStep

-----------------------------------------------------------------------------
(* The end of the saga.                                                    *)

(* The last commit; its answer may be lost.                                *)
LEMMA CompleteCommitSerial ==
    ASSUME SagaInv, SerialInv, Wary, Apart, NEW s \in Sessions, CompleteCommit(s)
    PROVE  SerialInv' /\ Final
<1>1. /\ sess[s].pc = "completing" /\ sess[s] \in SessType /\ Follows(s)
      /\ UNCHANGED <<staged, published>>
  BY Before DEF CompleteCommit, At, fileVars, outside
<1>2. PICK j \in Jobs : sess[s].job = j /\ RowTells(j) /\ oper[j] \in OperType
  BY <1>1, Before
<1>3. PICK pc \in {"checking", "failing"} : GoTo(s, pc)
  BY DEF CompleteCommit
<1>4. PICK row : /\ row = [oper[j] EXCEPT !.state = "completed"]
                 /\ row.state = "completed" /\ row.error = oper[j].error
                 /\ row.digests = oper[j].digests /\ row.row = oper[j].row
  <2>1. PICK c : c = [oper[j] EXCEPT !.state = "completed"]
    OBVIOUS
  <2>2. /\ c.state = "completed" /\ c.error = oper[j].error
        /\ c.digests = oper[j].digests /\ c.row = oper[j].row
    BY <1>2, <2>1, StateColumn
  <2> QED BY <2>1, <2>2
<1>5. /\ rows' = rows \cup {j} /\ job' = [job EXCEPT ![j] = "approved"]
      /\ oper' = [oper EXCEPT ![j] = row]
  BY <1>2, <1>4 DEF CompleteCommit, SagaInv, TypeOK
<1>6. Leaves(j) /\ oper'[j] = row /\ job'[j] = "approved" /\ j \in rows'
  BY <1>1, <1>5 DEF Leaves, SagaInv, TypeOK
<1>7. oper[j].state = "ledger_appended" /\ ~oper[j].error
  BY <1>1, <1>2 DEF Follows, StatesAt, Held, Pcs, Locked
<1>8. OthersStay(s) /\ sess'[s].pc = pc /\ sess'[s].job = j
  BY <1>2, <1>3, GoesOn DEF SagaInv
<1>9. Follows(s)' /\ Repairable(s)'
  BY <1>3, <1>4, <1>6, <1>8 DEF Follows, Repairable, StatesAt, Held
<1>10. RowTells(j)'
  BY <1>2, <1>4, <1>6, <1>7 DEF RowTells, JobAgrees, Resumable, Late
<1>11. Goes(s, j)
  BY <1>4, <1>6, <1>9, <1>10 DEF Goes
<1> QED BY <1>2, <1>6, <1>8, <1>11, OwnStep

\* A row with an index says where its own ledger row is.
LEMMA RowIsIntact ==
    ASSUME SagaInv, SerialInv, NEW j \in Jobs,
           oper[j].state \in {"ledger_appended", "completed"}
    PROVE  PublishedIntact(j, oper[j].row)
  BY DEF SagaInv, SerialInv, OperationFits, Own, Late, RowTells, JobAgrees, PublishedIntact

\* Everything is in place when the saga completes.
LEMMA NeverRefused ==
    ASSUME SagaInv, SerialInv, NEW s \in Sessions PROVE ~CompleteRefused(s)
<1> SUFFICES ASSUME CompleteRefused(s) PROVE FALSE
  OBVIOUS
<1>1. /\ sess[s].pc = "completing" /\ Follows(s) /\ ~Completable(s)
  BY Before DEF CompleteRefused, At
<1>2. PICK j \in Jobs : sess[s].job = j /\ RowTells(j)
  BY <1>1, Before
<1>3. oper[j].state = "ledger_appended" /\ sess[s].snap.row = oper[j].row
  BY <1>1, <1>2 DEF Follows, StatesAt, Held, Pcs, Locked
<1>4. job[j] = "sealing"
  BY <1>2, <1>3 DEF RowTells, JobAgrees, Resumable
<1> QED BY <1>1, <1>2, <1>3, <1>4, RowIsIntact DEF Completable

\* What completed passes the check of what completed, unless its rows were
\* rewritten.
LEMMA CompletedIsWhole ==
    ASSUME SagaInv, SerialInv, NEW j \in Jobs, oper[j].state = "completed"
    PROVE  CompletedGraph(j) \/ RecordsChanged(j)
  BY RowIsIntact DEF SerialInv, RowTells, JobAgrees, CompletedGraph

LEMMA ChecksPass ==
    ASSUME SagaInv, SerialInv, Wary, Apart, NEW s \in Sessions,
           CheckRefused(s) \/ CheckStopped(s) \/ FoundInconsistent(s)
    PROVE  SerialInv' /\ Final
<1>1. sess[s].pc \in {"checking", "failing"} /\ Follows(s)
  BY Before DEF CheckRefused, CheckStopped, FoundInconsistent, At
<1>2. PICK j \in Jobs : sess[s].job = j
  BY <1>1, Before
<1>3. sess[s].pc = "checking" => oper[j].state = "completed"
  BY <1>1, <1>2 DEF Follows, StatesAt
<1>4. /\ oper[j].state = "completed" /\ ~CompletedGraph(j) /\ GoTo(s, "integrity")
      /\ UNCHANGED <<dbVars, staged, published>>
  BY <1>2, <1>3 DEF CheckRefused, CheckStopped, FoundInconsistent, FoundDurable, At, fileVars
<1>5. Suspect(j)'
  BY <1>2, <1>4, CompletedIsWhole, SuspectStays DEF Suspect
<1> QED BY <1>1, <1>2, <1>4, <1>5, IntegritySerial DEF Locked

\* A finished session leaves an empty staging directory.
LEMMA FinishSerial ==
    ASSUME SagaInv, SerialInv, Wary, Apart, NEW s \in Sessions, sess[s].pc # "idle", Finish(s)
    PROVE  SerialInv' /\ Final
<1>1. PICK j \in Jobs : sess[s].job = j
  BY Before
<1>2. /\ sess' = [sess EXCEPT ![s] = Idle] /\ UNCHANGED <<dbVars, published>>
      /\ staged' = [staged EXCEPT ![j] = {}]
  BY <1>1 DEF Finish
<1>3. OthersStay(s) /\ Follows(s)' /\ Repairable(s)'
  BY <1>2, Ends DEF SagaInv
<1>4. Leaves(j)
  BY <1>2 DEF Leaves, dbVars, SagaInv, TypeOK
<1> QED BY <1>1, <1>2, <1>3, <1>4, FileStep

\* A failure is recorded in a row that is not completed.
LEMMA RecordFailureSerial ==
    ASSUME SagaInv, SerialInv, Wary, Apart, NEW s \in Sessions, RecordFailure(s)
    PROVE  SerialInv' /\ Final
<1>1. /\ sess[s].pc = "failing" /\ Follows(s)
      /\ UNCHANGED <<job, rows, staged, published>> /\ sess' = [sess EXCEPT ![s] = Idle]
  BY Before DEF RecordFailure, At, fileVars, outside
<1>2. PICK j \in Jobs : sess[s].job = j /\ RowTells(j) /\ oper[j] \in OperType
  BY <1>1, Before
<1>3. PICK row : /\ row = [oper[j] EXCEPT !.error = TRUE]
                 /\ row.state = oper[j].state
                 /\ row.digests = oper[j].digests /\ row.row = oper[j].row
  <2>1. PICK c : c = [oper[j] EXCEPT !.error = TRUE]
    OBVIOUS
  <2>2. c.state = oper[j].state /\ c.digests = oper[j].digests /\ c.row = oper[j].row
    BY <1>2, <2>1, ErrorColumn
  <2> QED BY <2>1, <2>2
<1>4. oper' = [oper EXCEPT ![j] = row]
  BY <1>2, <1>3 DEF RecordFailure, SagaInv, TypeOK
<1>5. Leaves(j) /\ oper'[j] = row
  BY <1>1, <1>4 DEF Leaves, SagaInv, TypeOK
<1>6. OthersStay(s) /\ Follows(s)' /\ Repairable(s)'
  BY <1>1, Ends DEF SagaInv
<1>7. oper[j].state \in Resumable
  BY <1>1, <1>2 DEF Follows, StatesAt, RecordFailure, FoundDurable
<1>8. RowTells(j)'
  BY <1>1, <1>2, <1>3, <1>5, <1>7 DEF RowTells, JobAgrees, Resumable
<1>9. Goes(s, j)
  BY <1>3, <1>5, <1>6, <1>7, <1>8 DEF Goes, Resumable
<1> QED BY <1>2, <1>5, <1>6, <1>9, OwnStep

\* An operation that is set aside was not completed, and files were meddled with.
LEMMA PersistManualAttentionSerial ==
    ASSUME SagaInv, SerialInv, Wary, Apart, NEW s \in Sessions, PersistManualAttention(s)
    PROVE  SerialInv' /\ Final
<1>1. /\ sess[s].pc = "integrity" /\ Follows(s) /\ (~Meddling => Repairable(s))
      /\ UNCHANGED <<job, rows, staged, published>> /\ sess' = [sess EXCEPT ![s] = Idle]
  BY Before DEF PersistManualAttention, At, fileVars, outside
<1>2. PICK j \in Jobs : sess[s].job = j /\ RowTells(j) /\ oper[j] \in OperType
  BY <1>1, Before
<1>3. PICK row : /\ row = [oper[j] EXCEPT !.state = "manual_attention", !.error = TRUE]
                 /\ row.state = "manual_attention"
  <2>1. ASSUME NEW o \in OperType
        PROVE  [o EXCEPT !.state = "manual_attention", !.error = TRUE].state = "manual_attention"
    BY DEF OperType
  <2> QED BY <1>2, <2>1
<1>4. oper' = [oper EXCEPT ![j] = row]
  BY <1>2, <1>3 DEF PersistManualAttention, SagaInv, TypeOK
<1>5. Leaves(j) /\ oper'[j] = row
  BY <1>1, <1>4 DEF Leaves, SagaInv, TypeOK
<1>6. OthersStay(s) /\ Follows(s)' /\ Repairable(s)'
  BY <1>1, Ends DEF SagaInv
<1>7. /\ oper[j].state \in Resumable \cup {"completed"}
      /\ oper[j].state = "completed" \/ ~Meddling => Suspect(j) /\ Suspect(j)'
  BY <1>1, <1>2, SuspectStays DEF Follows, StatesAt, Repairable
<1>8. RowTells(j)'
  BY <1>1, <1>2, <1>3, <1>5, <1>7 DEF RowTells, JobAgrees, Resumable, Late
<1>9. Goes(s, j)
  BY <1>3, <1>5, <1>6, <1>7, <1>8 DEF Goes, Resumable
<1> QED BY <1>2, <1>5, <1>6, <1>9, OwnStep

-----------------------------------------------------------------------------
(* Crashes, lost directories and changed evidence.                         *)
LEMMA CrashSerial ==
    ASSUME SagaInv, SerialInv, Wary, Apart, NEW s \in Sessions, Crash(s)
    PROVE  SerialInv' /\ Final
<1>1. /\ sess[s].pc # "idle" /\ sess' = [sess EXCEPT ![s] = Idle]
      /\ UNCHANGED <<dbVars, staged, published>>
  BY DEF Crash, fileVars, outside
<1>2. PICK j \in Jobs : sess[s].job = j
  BY <1>1, Before
<1>3. OthersStay(s) /\ Follows(s)' /\ Repairable(s)'
  BY <1>1, Ends DEF SagaInv
<1>4. Leaves(j)
  BY <1>1 DEF Leaves, dbVars
<1> QED BY <1>1, <1>2, <1>3, <1>4, FileStep

LEMMA OutsideSerial ==
    ASSUME SagaInv, SerialInv, Wary, NEW j \in Jobs, LoseStaging(j) \/ ChangeSource(j)
    PROVE  SerialInv' /\ Final
<1>1. /\ UNCHANGED <<dbVars, published, sess>>
      /\ \A k \in Jobs : staged'[k] = staged[k] \/ (k = j /\ (Meddling \/ LockFree(j)))
  BY DEF LoseStaging, ChangeSource, fileVars, outside, SagaInv, TypeOK
<1>2. ASSUME NEW s \in Sessions, ~Meddling, Repairable(s) PROVE Repairable(s)'
  <2>1. CASE sess[s].pc \in {"staging", "moving"}
    <3>1. PICK k \in Jobs : sess[s].job = k
      BY <2>1, Before
    <3>2. staged'[k] = staged[k]
      BY <1>1, <1>2, <2>1, <3>1 DEF LockFree, Locked
    <3> QED BY <1>1, <1>2, <2>1, <3>1, <3>2 DEF Repairable, Suspect, RecordsChanged, Wary
  <2>2. CASE sess[s].pc \notin {"staging", "moving"}
    BY <1>1, <1>2, <2>2 DEF Repairable, Suspect, RecordsChanged, Wary
  <2> QED BY <2>1, <2>2
<1>3. \A k \in Jobs : RowTells(k)'
  BY <1>1, RowsTell
<1>4. \A s \in Sessions : Follows(s)'
  BY <1>1 DEF SerialInv, Follows, dbVars, Suspect, RecordsChanged, Wary
<1> QED BY <1>1, <1>2, <1>3, <1>4, SuspectStays
        DEF SerialInv, Quiet, NothingNeedsAttention, Final, dbVars

(* No step takes suspicion back.                                           *)
LEMMA StaysWary == ASSUME [Next]_vars PROVE Wary
<1>1. ASSUME NEW s \in Sessions, Request(s) \/ Lock(s) PROVE UNCHANGED outside
  BY <1>1 DEF Request, Approve, Reject, RepeatApproval, Lock, outside
<1>2. ASSUME NEW s \in Sessions, SagaStep(s) PROVE UNCHANGED outside
  <2>1. CASE Begin(s) \/ StageFile(s) \/ StageRefused(s) \/ StageMismatch(s) \/ StageCommit(s)
    BY <2>1 DEF Begin, StageFile, StageRefused, StageMismatch, StageCommit, outside
  <2>2. CASE PublishCheck(s) \/ PublishFile(s) \/ PublishMissing(s) \/ PublishCommit(s)
    BY <2>2 DEF PublishCheck, PublishFile, PublishMissing, PublishCommit, outside
  <2>3. CASE LedgerRead(s) \/ LedgerWrite(s) \/ LedgerCommit(s)
    BY <2>3 DEF LedgerRead, LedgerWrite, LedgerCommit, outside
  <2>4. CASE CompleteCommit(s) \/ CompleteRefused(s)
    BY <2>4 DEF CompleteCommit, CompleteRefused, outside
  <2>5. CASE CheckCompleted(s) \/ CheckRefused(s) \/ CheckStopped(s)
    BY <2>5 DEF CheckCompleted, CheckRefused, CheckStopped, Finish, outside
  <2>6. CASE \/ FoundCompleted(s) \/ FoundInconsistent(s) \/ RecordFailure(s)
             \/ PersistManualAttention(s)
    BY <2>6 DEF FoundCompleted, FoundInconsistent, RecordFailure, PersistManualAttention, Finish,
       outside
  <2> QED BY <1>2, <2>1, <2>2, <2>3, <2>4, <2>5, <2>6 DEF SagaStep
<1>3. ASSUME NEW j \in Jobs, Recovery(j) PROVE UNCHANGED outside
  BY <1>3 DEF Recovery, StartRecovery, outside
<1>4. CASE Environment
  BY <1>4 DEF Environment, IoError, ReadError, Crash, LoseStaging, ChangeSource, outside, Wary
<1>5. CASE UNCHANGED vars
  BY <1>5 DEF vars, Wary
<1>6. UNCHANGED outside => Wary
  BY DEF outside, Wary
<1> QED BY <1>1, <1>2, <1>3, <1>4, <1>5, <1>6 DEF Next

(* Every step keeps the invariant and the completed operations.            *)
LEMMA SerialNext ==
    ASSUME SagaInv, SerialInv, Apart, Apart', [Next]_vars PROVE SerialInv' /\ Final
<1>0. Wary
  BY StaysWary
<1>1. ASSUME NEW s \in Sessions, Request(s) PROVE SerialInv' /\ Final
  BY <1>0, <1>1, ApproveSerial, RejectSerial, TakeUpSerial DEF Request
<1>2. ASSUME NEW s \in Sessions, Lock(s) PROVE SerialInv' /\ Final
  BY <1>0, <1>2, LockSerial
<1>3. ASSUME NEW s \in Sessions, SagaStep(s) PROVE SerialInv' /\ Final
  <2>1. CASE Begin(s) \/ StageFile(s) \/ StageCommit(s)
    BY <1>0, <2>1, BeginSerial, StageFileSerial, StageCommitSerial
  <2>2. CASE StageRefused(s)
    BY <1>0, <2>2, FailsSerial DEF StageRefused, At, Locked, fileVars, outside
  <2>3. CASE PublishCheck(s) \/ PublishFile(s) \/ PublishMissing(s) \/ PublishCommit(s)
    BY <1>0, <2>3, PublishCheckSerial, PublishFileSerial, PublishMissingSerial, PublishCommitSerial
  <2>4. CASE LedgerRead(s) \/ LedgerWrite(s) \/ LedgerCommit(s)
    BY <1>0, <2>4, LedgerReadSerial, LedgerWriteSerial, LedgerCommitSerial
  <2>5. CASE CompleteCommit(s) \/ RecordFailure(s) \/ PersistManualAttention(s)
    BY <1>0, <2>5, CompleteCommitSerial, RecordFailureSerial, PersistManualAttentionSerial
  <2>6. CASE CheckCompleted(s) \/ FoundCompleted(s)
    BY <1>0, <2>6, FinishSerial DEF CheckCompleted, FoundCompleted, At
  <2>7. CASE StageMismatch(s) \/ CheckRefused(s) \/ CheckStopped(s) \/ FoundInconsistent(s)
    BY <1>0, <2>7, StageMismatchSerial, ChecksPass
  <2>8. ~CompleteRefused(s)
    BY NeverRefused
  <2> QED BY <1>3, <2>1, <2>2, <2>3, <2>4, <2>5, <2>6, <2>7, <2>8 DEF SagaStep
<1>4. ASSUME NEW j \in Jobs, Recovery(j) PROVE SerialInv' /\ Final
  BY <1>0, <1>4, TakeUpSerial DEF Recovery
<1>5. CASE Environment
  <2>1. ASSUME NEW s \in Sessions, IoError(s) PROVE SerialInv' /\ Final
    BY <1>0, <2>1, FailsSerial DEF IoError, fileVars, outside
  <2> QED BY <1>0, <1>5, <2>1, ReadErrorSerial, CrashSerial, OutsideSerial DEF Environment
<1>6. CASE UNCHANGED vars
  <2>1. UNCHANGED <<dbVars, staged, published, sess>>
    BY <1>6 DEF vars, dbVars
  <2>2. \A j \in Jobs : RowTells(j)'
    BY <1>0, <2>1, RowsTell
  <2>3. \A s \in Sessions : Follows(s)' /\ (Repairable(s) => Repairable(s)')
    BY <1>0, <2>1 DEF SerialInv, Follows, Repairable, dbVars, Suspect, RecordsChanged, Wary
  <2> QED BY <1>0, <2>1, <2>2, <2>3, SuspectStays
        DEF SerialInv, Quiet, NothingNeedsAttention, Final, dbVars
<1> QED BY <1>1, <1>2, <1>3, <1>4, <1>5, <1>6 DEF Next

(* While no two sessions are on one job, what a session holds is the row,
   and unless files are meddled with nothing it counted on is missing, so
   that only a job whose files could not be read is set aside.             *)
THEOREM SerialInvariant == Spec /\ []Apart => []SerialInv
<1>1. SagaInv /\ SerialInv /\ Apart /\ Apart' /\ [Next]_vars => SerialInv'
  BY SerialNext
<1> QED BY SagaInvariant, SerialInit, <1>1, PTL DEF Spec

(* A completed operation stays completed while no two sessions are on one
   job, however its sagas crash, fail, are repeated or are meddled with,
   unless a read error was taken for damage of its files or its rows were
   rewritten. (A second session that holds an older copy of the row takes it
   back: that is the disagreement the run seal_stale_session shows.)       *)
THEOREM CompletionIsFinal == Spec /\ []Apart => CompletedIsFinal
<1>1. SagaInv /\ SerialInv /\ Apart /\ Apart' /\ [Next]_vars =>
        [\A j \in Jobs : oper[j].state = "completed" =>
             oper'[j].state = "completed" \/ Suspect(j)]_vars
  BY SerialNext DEF Final
<1> QED BY SagaInvariant, SerialInvariant, <1>1, PTL DEF Spec, CompletedIsFinal

(* Crashes, failed writes, lost staging directories and lost answers leave
   no mark, while no two sessions are on one job and no file is meddled
   with: job and operation agree, what is completed shows no error, and
   nothing is set aside for manual attention, in any number of attempts. The
   one mark is that of a read error the code takes for damage.             *)
THEOREM InterruptionsLeaveNoMark ==
    ~Meddling => (Spec /\ []Apart => []InterruptionLeavesNoMark)
<1> SUFFICES ASSUME ~Meddling PROVE Spec /\ []Apart => []InterruptionLeavesNoMark
  OBVIOUS
<1>1. SagaInv /\ SerialInv => InterruptionLeavesNoMark
  BY DEF SagaInv, SerialInv, RowTells, JobAgrees, Quiet, InterruptionLeavesNoMark,
     CompletedHasNoError
<1> QED BY SagaInvariant, SerialInvariant, <1>1, PTL

(* One session at a time is enough for both.                               *)
COROLLARY OneSession ==
    ASSUME \A s, t \in Sessions : s = t
    PROVE  /\ Spec => CompletedIsFinal
           /\ ~Meddling => (Spec => []InterruptionLeavesNoMark)
<1>1. Apart
  BY DEF Apart
<1>2. Spec => CompletedIsFinal
  BY <1>1, CompletionIsFinal, PTL
<1>3. ASSUME ~Meddling PROVE Spec => []InterruptionLeavesNoMark
  <2>1. Spec /\ []Apart => []InterruptionLeavesNoMark
    BY <1>3, InterruptionsLeaveNoMark
  <2> QED BY <1>1, <2>1, PTL
<1> QED BY <1>2, <1>3
=============================================================================
