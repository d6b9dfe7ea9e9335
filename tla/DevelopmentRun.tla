---------------------------- MODULE DevelopmentRun ----------------------------
(***************************************************************************)
(* A development evaluation (evaluation/executor.py) and the publication   *)
(* of its evidence (evaluation/bundle.py).  A run checks the files its     *)
(* plan declares, copies them, lets a predictor process loose on the       *)
(* copies, kills the process group, checks the files again, scores what    *)
(* the predictor left and publishes a directory at one destination.  Other *)
(* programs edit the files meanwhile, the predictor may fork and escape    *)
(* from its group, disks fail, runs crash, and several runs may be given   *)
(* the same destination.                                                   *)
(***************************************************************************)
EXTENDS Naturals, Sequences, FiniteSets

CONSTANTS
    Runs,        \* run processes, all given one plan and one destination
    Rivals,      \* those of them that have scored already and only publish
    Edited,      \* the files that others edit
    MaxEdits     \* bound: changes of the files while the runs go on

\* The evaluator's sources are a declared file too.  One of them, the
\* supervisor, is also read for itself.
Files == {"plan", "evaluator", "supervisor", "manifest", "statement", "training", "model",
          "entrypoint", "assets"}

ASSUME RivalsAssumption == Rivals \subseteq Runs
ASSUME EditedAssumption == Edited \subseteq Files
ASSUME MaxEditsAssumption == MaxEdits \in Nat

\* What a predictor may leave: a file that satisfies the scoring contract, one
\* that does too but holds a value the evidence must not show, and one that is
\* no predictions file for these cases.
Outputs == {"good", "telling", "junk"}

VARIABLES
    changed,   \* the files that are not now what the plan declares
    edits,     \* how often a file was changed
    restored,  \* history: the files that were put back
    pc,        \* where each run is
    used,      \* the files a run has used in a version the plan does not declare
    group,     \* the processes in a predictor's group: "leader", "child"
    escaped,   \* a child of the predictor left the group
    status,    \* the leader's return code, once it has ended by itself
    out,       \* the predictions file in the sandbox
    taken,     \* the predictions the run has in memory
    staging,   \* the run's staging directory: absent, partial or a bundle
    lock,      \* the run that holds the publication lock
    dest,      \* what is at the destination
    outcome,   \* what the run is about to answer, or has answered
    broken     \* a directory of the run could not be removed

vars == <<changed, edits, restored, pc, used, group, escaped, status, out, taken, staging, lock,
          dest, outcome, broken>>

process == <<group, escaped, status, out>>
publication == <<staging, lock, dest>>
world == <<changed, edits, restored>>

\* A directory: whose it is, if a run's, and the predictions in it, if complete.
Directory(runs, predictions) == [run |-> runs, predictions |-> predictions]
Foreign == Directory({}, {})
BundlesOf(r) == {Directory({r}, {p}) : p \in Outputs}

Ended == {"answered", "crashed"}

Init ==
    /\ changed = {} /\ edits = 0 /\ restored = {}
    /\ pc = [r \in Runs |-> IF r \in Rivals THEN "find_destination_again" ELSE "import"]
    /\ used = [r \in Runs |-> {}]
    /\ group = [r \in Runs |-> {}]
    /\ escaped = [r \in Runs |-> FALSE]
    /\ status = [r \in Runs |-> IF r \in Rivals THEN {0} ELSE {}]
    /\ out = [r \in Runs |-> {}]
    /\ taken = [r \in Runs |-> IF r \in Rivals THEN {"good"} ELSE {}]
    /\ staging = [r \in Runs |-> {}]
    /\ lock = {} /\ dest = {}
    /\ outcome = [r \in Runs |-> "none"]
    /\ broken = [r \in Runs |-> FALSE]

Goto(r, label) == pc' = [pc EXCEPT ![r] = label]

\* A run that has no directory of its own yet just answers; one that has
\* removes it first.
Fail(r, why) ==
    /\ outcome' = [outcome EXCEPT ![r] = why]
    /\ Goto(r, "remove_sandbox")

Answer(r, what) ==
    /\ outcome' = [outcome EXCEPT ![r] = what]
    /\ Goto(r, "answered")

-----------------------------------------------------------------------------
\* The files are edited and put back by others.
Edit(f) ==
    /\ \/ /\ f \notin changed /\ edits < MaxEdits
          /\ edits' = edits + 1
          /\ changed' = changed \cup {f}
          /\ UNCHANGED restored
       \/ /\ f \in changed
          /\ changed' = changed \ {f}
          /\ restored' = restored \cup {f}
          /\ UNCHANGED edits
    /\ UNCHANGED <<pc, used, process, taken, publication, outcome, broken>>

\* Somebody puts a directory of his own at the destination.
Occupy ==
    /\ dest = {}
    /\ dest' = {Foreign}
    /\ UNCHANGED <<world, pc, used, process, taken, staging, lock, outcome, broken>>

-----------------------------------------------------------------------------
\* A run reads files and goes on with what it read.
Uses(r, files) == used' = [used EXCEPT ![r] = @ \cup (files \cap changed)]

\* The interpreter has loaded the evaluator's modules before any digest is
\* taken of the files they came from.
Import(r) ==
    /\ pc[r] = "import"
    /\ Uses(r, {"evaluator"})
    /\ Goto(r, "verify_plan")
    /\ UNCHANGED <<world, process, taken, publication, outcome, broken>>

\* Before the sandbox: files are read and their digests compared.  What was
\* hashed is what is used, but of the evaluator, which is only hashed here.
Before == [verify_plan |-> <<{"plan"}, "find_destination">>,
           verify_evaluator |-> <<{"evaluator", "supervisor"}, "verify_manifest">>,
           verify_manifest |-> <<{"manifest"}, "load_cases">>,
           verify_statement |-> <<{"statement"}, "verify_training">>,
           verify_training |-> <<{"training"}, "copy_supervisor">>]

\* Into the sandbox: copied and hashed in one pass.
Copied == [copy_model |-> <<{"model"}, "copy_entrypoint">>,
           copy_entrypoint |-> <<{"entrypoint"}, "start">>]

(* Mutant: the evaluator is not looked at again. *)
AgainButTheEvaluator ==
    [recheck_plan |-> <<{"plan"}, "recheck_manifest">>,
     recheck_manifest |-> <<{"manifest"}, "recheck_statement">>,
     recheck_statement |-> <<{"statement"}, "recheck_model">>,
     recheck_model |-> <<{"model"}, "recheck_entrypoint">>,
     recheck_entrypoint |-> <<{"entrypoint"}, "recheck_training">>,
     recheck_training |-> <<{"training"}, "recheck_evaluator">>,
     recheck_evaluator |-> <<{}, "take_predictions">>]

\* After the process: the files by their paths again, not the copies.
Again == [recheck_plan |-> <<{"plan"}, "recheck_manifest">>,
          recheck_manifest |-> <<{"manifest"}, "recheck_statement">>,
          recheck_statement |-> <<{"statement"}, "recheck_model">>,
          recheck_model |-> <<{"model"}, "recheck_entrypoint">>,
          recheck_entrypoint |-> <<{"entrypoint"}, "recheck_training">>,
          recheck_training |-> <<{"training"}, "recheck_evaluator">>,
          recheck_evaluator |-> <<{"evaluator", "supervisor"}, "take_predictions">>]

VerifyBefore(r) ==
    /\ pc[r] \in DOMAIN Before
    /\ LET files == Before[pc[r]][1]
           next == Before[pc[r]][2] IN
           IF files \cap changed # {} THEN Answer(r, "refused") /\ UNCHANGED used
           ELSE Goto(r, next) /\ Uses(r, files) /\ UNCHANGED outcome
    /\ UNCHANGED <<world, process, taken, publication, broken>>

FindDestination(r) ==
    /\ pc[r] = "find_destination"
    /\ IF dest # {} THEN Answer(r, "refused") ELSE Goto(r, "verify_evaluator") /\ UNCHANGED outcome
    /\ UNCHANGED <<world, used, process, taken, publication, broken>>

\* validate_dataset opens the manifest by its path once more, and is told no
\* digest: the cases are those of whatever manifest is there now, and the
\* assets need to be the ones that manifest declares.
LoadCases(r) ==
    /\ pc[r] = "load_cases"
    /\ \/ changed \cap {"assets", "manifest"} # {} /\ Answer(r, "refused") /\ UNCHANGED used
       \/ /\ "assets" \in changed => "manifest" \in changed
          /\ Uses(r, {"manifest", "assets"})
          /\ Goto(r, "verify_statement")
          /\ UNCHANGED outcome
    /\ UNCHANGED <<world, process, taken, publication, broken>>

\* supervisor.py is read again, with no digest, and put where it is executed.
CopySupervisor(r) ==
    /\ pc[r] = "copy_supervisor"
    /\ Uses(r, {"supervisor"})
    /\ Goto(r, "copy_assets")
    /\ UNCHANGED <<world, process, taken, publication, outcome, broken>>

\* The assets are checked as they are copied, against the manifest that the
\* cases came from.
CopyAssets(r) ==
    /\ pc[r] = "copy_assets"
    /\ \/ /\ "assets" \in changed \/ "manifest" \in used[r]
          /\ Fail(r, "refused")
          /\ UNCHANGED used
       \/ /\ "assets" \in changed => "manifest" \in used[r]
          /\ Uses(r, {"assets"})
          /\ Goto(r, "copy_model")
          /\ UNCHANGED outcome
    /\ UNCHANGED <<world, process, taken, publication, broken>>

Copy(r) ==
    /\ pc[r] \in DOMAIN Copied
    /\ LET files == Copied[pc[r]][1]
           next == Copied[pc[r]][2] IN
           IF files \cap changed # {} THEN Fail(r, "refused") /\ UNCHANGED used
           ELSE Goto(r, next) /\ Uses(r, files) /\ UNCHANGED outcome
    /\ UNCHANGED <<world, process, taken, publication, broken>>

-----------------------------------------------------------------------------
\* The supervisor limits itself and becomes the predictor, the leader of a
\* group of its own.
Start(r) ==
    /\ pc[r] = "start"
    /\ group' = [group EXCEPT ![r] = {"leader"}]
    /\ Goto(r, "wait")
    /\ UNCHANGED <<world, used, escaped, status, out, taken, publication, outcome, broken>>

\* As long as the sandbox is there, any process of the predictor may write
\* its output, whatever the run is doing.
Write(r, output) ==
    /\ group[r] # {} \/ escaped[r]
    /\ pc[r] \notin Ended
    /\ out' = [out EXCEPT ![r] = {output}]
    /\ UNCHANGED <<world, pc, used, group, escaped, status, taken, publication, outcome, broken>>

\* Bound: the leader has one child.
Fork(r) ==
    /\ "leader" \in group[r] /\ ~escaped[r] /\ pc[r] \notin Ended
    /\ group' = [group EXCEPT ![r] = @ \cup {"child"}]
    /\ UNCHANGED <<world, pc, used, escaped, status, out, taken, publication, outcome, broken>>

\* setsid: no signal to the group reaches this process any more.
Escape(r) ==
    /\ "child" \in group[r] /\ pc[r] \notin Ended
    /\ group' = [group EXCEPT ![r] = @ \ {"child"}]
    /\ escaped' = [escaped EXCEPT ![r] = TRUE]
    /\ UNCHANGED <<world, pc, used, status, out, taken, publication, outcome, broken>>

\* The leader ends and leaves its children; killed by a signal, it has no
\* return code of zero either.
Exit(r, code) ==
    /\ "leader" \in group[r] /\ pc[r] \notin Ended
    /\ group' = [group EXCEPT ![r] = @ \ {"leader"}]
    /\ status' = [status EXCEPT ![r] = {code}]
    /\ UNCHANGED <<world, pc, used, escaped, out, taken, publication, outcome, broken>>

-----------------------------------------------------------------------------
(* Mutant: no time limit. *)
NoTimeLimit(r) == FALSE

\* process.wait returns, or its time is up, which is when a process that has
\* ended meanwhile may be taken for one that has not.
WaitReturns(r) ==
    /\ pc[r] = "wait"
    /\ "leader" \notin group[r]
    /\ Goto(r, "terminate")
    /\ UNCHANGED <<world, used, process, taken, publication, outcome, broken>>

TimeIsUp(r) ==
    /\ pc[r] = "wait"
    /\ "leader" \in group[r]
    /\ outcome' = [outcome EXCEPT ![r] = "timeout"]
    /\ Goto(r, "terminate")
    /\ UNCHANGED <<world, used, process, taken, publication, broken>>

\* SIGTERM to the group: some ignore it.  The call may be refused, which is
\* remembered.
Terminate(r) ==
    /\ pc[r] = "terminate"
    /\ \/ \E survivors \in SUBSET group[r] :
              /\ group' = [group EXCEPT ![r] = survivors]
              /\ UNCHANGED outcome
       \/ /\ group[r] # {}
          /\ outcome' = [outcome EXCEPT ![r] = IF @ = "none" THEN "cleanup_failed" ELSE @]
          /\ UNCHANGED group
    /\ Goto(r, "kill")
    /\ UNCHANGED <<world, used, escaped, status, out, taken, publication, broken>>

(* Mutant: the group is killed only when the leader did not end by itself. *)
KillOnTimeoutOnly(r) ==
    /\ pc[r] = "kill"
    /\ IF outcome[r] = "timeout" THEN group' = [group EXCEPT ![r] = {}] ELSE UNCHANGED group
    /\ Goto(r, "take_logs")
    /\ UNCHANGED <<world, used, escaped, status, out, taken, publication, outcome, broken>>

\* SIGKILL to the group: nobody can ignore it.
Kill(r) ==
    /\ pc[r] = "kill"
    /\ \/ /\ group' = [group EXCEPT ![r] = {}]
          /\ UNCHANGED outcome
       \/ /\ group[r] # {}
          /\ outcome' = [outcome EXCEPT ![r] = IF @ = "none" THEN "cleanup_failed" ELSE @]
          /\ UNCHANGED group
    /\ Goto(r, "take_logs")
    /\ UNCHANGED <<world, used, escaped, status, out, taken, publication, broken>>

\* A timeout or an incomplete cleanup is raised here.  Logs above their limit
\* and a return code that is not zero end the run too.
TakeLogs(r) ==
    /\ pc[r] = "take_logs"
    /\ \/ outcome[r] # "none" /\ Fail(r, outcome[r])
       \/ outcome[r] = "none" /\ Fail(r, "failed")
       \/ outcome[r] = "none" /\ status[r] = {0} /\ Goto(r, "recheck_plan") /\ UNCHANGED outcome
    /\ UNCHANGED <<world, used, process, taken, publication, broken>>

VerifyAgain(r) ==
    /\ pc[r] \in DOMAIN Again
    /\ LET files == Again[pc[r]][1]
           next == Again[pc[r]][2] IN
           IF files \cap changed # {} THEN Fail(r, "refused")
           ELSE Goto(r, next) /\ UNCHANGED outcome
    /\ UNCHANGED <<world, used, process, taken, publication, broken>>

-----------------------------------------------------------------------------
\* One snapshot of the predictions: from here on the run has them in memory
\* and in a directory the predictor does not know.
TakePredictions(r) ==
    /\ pc[r] = "take_predictions"
    /\ IF out[r] = {} THEN Fail(r, "failed") /\ UNCHANGED taken
       ELSE /\ taken' = [taken EXCEPT ![r] = out[r]]
            /\ Goto(r, "score")
            /\ UNCHANGED outcome
    /\ UNCHANGED <<world, used, process, publication, broken>>

\* The manifest and the statement are read once more, against the digests of
\* the plan; the cases, labels and assets against those of the manifest.
Score(r) ==
    /\ pc[r] = "score"
    /\ LET files == {"manifest", "statement", "assets"} IN
           IF files \cap changed # {} THEN Fail(r, "refused") /\ UNCHANGED used
           ELSE IF taken[r] = {"junk"} THEN Fail(r, "failed") /\ UNCHANGED used
           ELSE Goto(r, "find_destination_again") /\ Uses(r, files) /\ UNCHANGED outcome
    /\ UNCHANGED <<world, process, taken, publication, broken>>

-----------------------------------------------------------------------------
\* An error while publishing: the lock is given back and a staging directory
\* that was not published is removed, if that is possible.
Abandon(r, why) ==
    /\ outcome' = [outcome EXCEPT ![r] = why]
    /\ Goto(r, "give_up")
    /\ UNCHANGED <<world, used, process, taken, publication, broken>>

FindDestinationAgain(r) ==
    /\ pc[r] = "find_destination_again"
    /\ IF dest # {} THEN Abandon(r, "refused")
       ELSE /\ Goto(r, "make_staging")
            /\ UNCHANGED <<world, used, process, taken, publication, outcome, broken>>

MakeStaging(r) ==
    /\ pc[r] = "make_staging"
    /\ staging' = [staging EXCEPT ![r] = {Directory({r}, {})}]
    /\ Goto(r, "write_members")
    /\ UNCHANGED <<world, used, process, taken, lock, dest, outcome, broken>>

WriteMembers(r) ==
    /\ pc[r] = "write_members"
    /\ staging' = [staging EXCEPT ![r] = {Directory({r}, taken[r])}]
    /\ Goto(r, "verify_bundle")
    /\ UNCHANGED <<world, used, process, taken, lock, dest, outcome, broken>>

\* The run verifies its own bundle as anyone would, privacy included.
VerifyBundle(r) ==
    /\ pc[r] = "verify_bundle"
    /\ IF taken[r] = {"telling"} THEN Abandon(r, "refused")
       ELSE /\ Goto(r, "lock")
            /\ UNCHANGED <<world, used, process, taken, publication, outcome, broken>>

\* flock waits for as long as it takes.
Lock(r) ==
    /\ pc[r] = "lock"
    /\ lock = {}
    /\ lock' = {r}
    /\ Goto(r, "look_again")
    /\ UNCHANGED <<world, used, process, taken, staging, dest, outcome, broken>>

LookAgain(r) ==
    /\ pc[r] = "look_again"
    /\ IF dest # {} THEN Abandon(r, "refused")
       ELSE /\ Goto(r, "rename")
            /\ UNCHANGED <<world, used, process, taken, publication, outcome, broken>>

(* Mutant: a rename that replaces. *)
RenameReplacing(r) ==
    /\ pc[r] = "rename"
    /\ dest' = staging[r]
    /\ staging' = [staging EXCEPT ![r] = {}]
    /\ Goto(r, "sync_parent")
    /\ UNCHANGED <<world, used, process, taken, lock, outcome, broken>>

\* renameat2 with RENAME_NOREPLACE, which may also be refused by the file system.
Rename(r) ==
    /\ pc[r] = "rename"
    /\ IF dest # {} THEN Abandon(r, "refused")
       ELSE /\ dest' = staging[r]
            /\ staging' = [staging EXCEPT ![r] = {}]
            /\ Goto(r, "sync_parent")
            /\ UNCHANGED <<world, used, process, taken, lock, outcome, broken>>

(* Mutant: a failed sync is an error like any other. *)
SyncParentPlain(r) ==
    /\ pc[r] = "sync_parent"
    /\ \/ outcome' = [outcome EXCEPT ![r] = "ok"]
       \/ outcome' = [outcome EXCEPT ![r] = "failed"]
    /\ Goto(r, "give_up")
    /\ UNCHANGED <<world, used, process, taken, publication, broken>>

SyncParent(r) ==
    /\ pc[r] = "sync_parent"
    /\ \/ outcome' = [outcome EXCEPT ![r] = "ok"]
       \/ outcome' = [outcome EXCEPT ![r] = "unconfirmed"]
    /\ Goto(r, "give_up")
    /\ UNCHANGED <<world, used, process, taken, publication, broken>>

\* Any other call that touches the disk while publishing may fail.
PublishingError(r) ==
    /\ pc[r] \in {"make_staging", "write_members", "verify_bundle", "lock", "rename"}
    /\ Abandon(r, "failed")

\* The finally clause, after a success as after an error.
GiveUp(r) ==
    /\ pc[r] = "give_up"
    /\ lock' = lock \ {r}
    /\ \/ staging' = [staging EXCEPT ![r] = {}] /\ UNCHANGED broken
       \/ staging[r] # {} /\ broken' = [broken EXCEPT ![r] = TRUE] /\ UNCHANGED staging
    /\ Goto(r, "remove_sandbox")
    /\ UNCHANGED <<world, used, process, taken, dest, outcome>>

\* The temporary directory is removed last, whatever happened.  When that
\* fails, for instance because a process still writes in it, the run answers
\* with that error instead of what it had to say.
RemoveSandbox(r) ==
    /\ pc[r] = "remove_sandbox"
    /\ \/ /\ Goto(r, "answered")
          /\ out' = [out EXCEPT ![r] = {}]
          /\ UNCHANGED <<outcome, broken>>
       \/ /\ Answer(r, "local_io")
          /\ broken' = [broken EXCEPT ![r] = TRUE]
          /\ UNCHANGED out
    /\ UNCHANGED <<world, used, group, escaped, status, taken, publication>>

\* Any other call of a run that touches the disk may fail.
DiskError(r) ==
    /\ \/ pc[r] \in DOMAIN Before \cup {"find_destination", "load_cases"} /\ Answer(r, "failed")
       \/ /\ pc[r] \in DOMAIN Copied \cup DOMAIN Again
                        \cup {"copy_supervisor", "copy_assets", "start", "take_predictions", "score"}
          /\ Fail(r, "failed")
    /\ UNCHANGED <<world, used, process, taken, publication, broken>>

\* The run's process dies: the kernel gives its lock back, its directories
\* and the predictor stay, whose output nobody will read.
Crash(r) ==
    /\ pc[r] \notin Ended
    /\ Goto(r, "crashed")
    /\ lock' = lock \ {r}
    /\ out' = [out EXCEPT ![r] = {}]
    /\ UNCHANGED <<world, used, group, escaped, status, taken, staging, dest, outcome, broken>>

-----------------------------------------------------------------------------
Step(r) ==
    \/ Import(r) \/ VerifyBefore(r) \/ FindDestination(r) \/ LoadCases(r)
    \/ CopySupervisor(r) \/ CopyAssets(r) \/ Copy(r) \/ Start(r)
    \/ WaitReturns(r) \/ TimeIsUp(r) \/ Terminate(r) \/ Kill(r) \/ TakeLogs(r)
    \/ VerifyAgain(r) \/ TakePredictions(r) \/ Score(r)
    \/ FindDestinationAgain(r) \/ MakeStaging(r) \/ WriteMembers(r) \/ VerifyBundle(r)
    \/ Lock(r) \/ LookAgain(r) \/ Rename(r) \/ SyncParent(r)
    \/ GiveUp(r) \/ RemoveSandbox(r)

Fault(r) == DiskError(r) \/ PublishingError(r) \/ Crash(r)

Predictor(r) ==
    \/ \E output \in Outputs : Write(r, output)
    \/ Fork(r) \/ Escape(r)
    \/ \E code \in {0, 1} : Exit(r, code)

Done == (\A r \in Runs : pc[r] \in Ended) /\ UNCHANGED vars

Next ==
    \/ \E f \in Edited : Edit(f)
    \/ Occupy
    \/ \E r \in Runs : Step(r) \/ Predictor(r) \/ Fault(r)
    \/ Done

\* A run goes on by itself: the time limit ends its only unbounded wait but
\* that for the lock.  Nothing is assumed of the predictor.
Spec == Init /\ [][Next]_vars /\ \A r \in Runs : WF_vars(Step(r))

-----------------------------------------------------------------------------
Labels ==
    DOMAIN Before \cup DOMAIN Copied \cup DOMAIN Again \cup Ended
    \cup {"import", "find_destination", "load_cases", "copy_supervisor", "copy_assets", "start",
          "wait", "terminate", "kill", "take_logs", "take_predictions", "score", "find_destination_again", "make_staging",
          "write_members", "verify_bundle", "lock", "look_again", "rename", "sync_parent",
          "give_up", "remove_sandbox"}

Outcomes == {"none", "ok", "refused", "failed", "timeout", "cleanup_failed", "unconfirmed",
             "local_io"}

(* Every variable has its type, at most one run holds the lock, and there  *)
(* is a lock holder only between flock and the finally clause.             *)
TypeOK ==
    /\ changed \subseteq Files /\ edits \in 0 .. MaxEdits /\ restored \subseteq Files
    /\ pc \in [Runs -> Labels]
    /\ used \in [Runs -> SUBSET Files]
    /\ group \in [Runs -> SUBSET {"leader", "child"}]
    /\ escaped \in [Runs -> BOOLEAN] /\ broken \in [Runs -> BOOLEAN]
    /\ status \in [Runs -> {{}, {0}, {1}}]
    /\ \A r \in Runs : out[r] \in SUBSET Outputs /\ Cardinality(out[r]) <= 1
    /\ \A r \in Runs : taken[r] \in SUBSET Outputs /\ Cardinality(taken[r]) <= 1
    /\ \A r \in Runs : staging[r] \subseteq BundlesOf(r) \cup {Directory({r}, {})}
    /\ dest \subseteq (UNION {BundlesOf(r) : r \in Runs}) \cup {Foreign} /\ Cardinality(dest) <= 1
    /\ lock \in SUBSET Runs /\ Cardinality(lock) <= 1
    /\ \A r \in lock : pc[r] \in {"look_again", "rename", "sync_parent", "give_up"}
    /\ outcome \in [Runs -> Outcomes]

(* Whatever is at the destination stays there: not another run, nor a      *)
(* directory that appears after the last look, is ever replaced            *)
(* (_rename_directory_noreplace).                                          *)
DestinationIsWrittenOnce == [][dest # {} => dest' = dest]_dest

Published(r) == \E d \in dest : d.run = {r}

(* What is published is a verified bundle of a run whose process returned  *)
(* zero, with the predictions that were scored, although a process that    *)
(* escaped may have rewritten the file since; and nothing that the         *)
(* evidence must not show.                                                 *)
PublishedIsWhatWasScored ==
    \A d \in dest : \A r \in d.run :
        /\ d.predictions = taken[r]
        /\ taken[r] = {"good"}
        /\ status[r] = {0}

(* A published run used the files as the plan declares them, whatever was  *)
(* edited between its checks, but for a file that was changed and put back *)
(* before the last check, and then only one of the four it reads without a *)
(* digest of the plan: the evaluator's modules, loaded before they are     *)
(* hashed; supervisor.py, read once more to be executed; the manifest,     *)
(* opened once more for the cases; and the assets, when they are checked   *)
(* against a manifest that is not the plan's.                              *)
PublishedUsedWhatWasDeclared ==
    \A r \in Runs : Published(r) =>
        /\ used[r] \subseteq {"evaluator", "supervisor", "manifest", "assets"} \cap restored
        /\ "assets" \in used[r] => "manifest" \in used[r]

(* Once the group was killed and the run goes on, nothing in that group    *)
(* writes predictions any more; only a process that left the group can     *)
(* (_terminate_process_group).                                             *)
KilledGroupIsSilent ==
    \A r \in Runs :
        pc[r] \in DOMAIN Again \cup {"take_predictions", "score"} => group[r] = {}

(* Published evidence is true: it is about the declared files, and holds   *)
(* what was scored when no process of the predictor's group could write.   *)
PublishedEvidenceIsTrue ==
    /\ TypeOK
    /\ PublishedIsWhatWasScored
    /\ PublishedUsedWhatWasDeclared
    /\ KilledGroupIsSilent

(* The answer of a run that could remove its temporary directory says      *)
(* whether its evidence is at the destination: ok and unconfirmed say yes, *)
(* every other answer says no.                                             *)
AnswerTellsPublication ==
    \A r \in Runs :
        pc[r] = "answered" /\ outcome[r] # "local_io" =>
            (Published(r) <=> outcome[r] \in {"ok", "unconfirmed"})

(* A run that ended without a crash leaves no staging directory, unless    *)
(* removing it failed.                                                     *)
NoStagingIsLeft ==
    \A r \in Runs : pc[r] = "answered" /\ ~broken[r] => staging[r] = {}

(* What a run answered agrees with what it left on the disk, whichever of  *)
(* its calls failed.                                                       *)
AnswerMatchesTheDisk == AnswerTellsPublication /\ NoStagingIsLeft

(* Every run answers unless it crashes: a predictor that never ends meets  *)
(* the time limit, and the lock of a run that died is free again.          *)
EveryRunEnds == \A r \in Runs : <>(pc[r] \in Ended)
=============================================================================
