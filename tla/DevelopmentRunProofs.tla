------------------------- MODULE DevelopmentRunProofs -------------------------
(***************************************************************************)
(* Theorems about DevelopmentRun, for any runs, rivals, edited files and   *)
(* number of edits.                                                        *)
(*                                                                         *)
(* What a run answers is tied to the disk only through where it is: the    *)
(* invariant says, for each stretch of its program, what a run holds, what *)
(* lies in its staging directory and whether the destination is its own.   *)
(***************************************************************************)
EXTENDS DevelopmentRun, FiniteSetTheorems, TLAPS

Maybe(S) == {{}} \cup {{x} : x \in S}

\* The stretches of a run's program, but for its last steps.
Preparing == {"import", "verify_plan", "verify_evaluator", "verify_manifest",
              "verify_statement", "verify_training", "find_destination", "load_cases",
              "copy_supervisor", "copy_assets", "copy_model", "copy_entrypoint", "start"}
Supervising == {"wait", "terminate", "kill", "take_logs"}
Judging == {"recheck_plan", "recheck_manifest", "recheck_statement", "recheck_model",
            "recheck_entrypoint", "recheck_training", "recheck_evaluator",
            "take_predictions", "score"}
Building == {"find_destination_again", "make_staging", "write_members", "verify_bundle"}
Releasing == {"lock", "look_again", "rename"}
Unpublished == Preparing \cup Supervising \cup Judging \cup Building \cup Releasing
Closing == {"give_up", "remove_sandbox", "answered", "crashed"}
AllLabels == Unpublished \cup {"sync_parent"} \cup Closing

\* Sets of at most one element, said so that a step can be computed with.
Typed ==
    /\ changed \subseteq Files /\ edits \in 0 .. MaxEdits /\ restored \subseteq Files
    /\ pc \in [Runs -> AllLabels]
    /\ used \in [Runs -> SUBSET Files]
    /\ group \in [Runs -> SUBSET {"leader", "child"}]
    /\ escaped \in [Runs -> BOOLEAN] /\ broken \in [Runs -> BOOLEAN]
    /\ status \in [Runs -> {{}, {0}, {1}}]
    /\ out \in [Runs -> Maybe(Outputs)]
    /\ taken \in [Runs -> Maybe(Outputs)]
    /\ staging = [r \in Runs |-> staging[r]]
    /\ lock \in Maybe(Runs)
    /\ outcome \in [Runs -> Outcomes]

Bundle(r) == Directory({r}, {"good"})
Here(r) == dest = {Bundle(r)}

DestinationFits == dest = {} \/ dest = {Foreign} \/ \E r \in Runs : Here(r)

LockFits == \A r \in lock : pc[r] \in {"look_again", "rename", "sync_parent", "give_up"}

\* Until a run closes it has met no error but those of supervision.
OutcomeFits(r) == pc[r] \notin Closing => outcome[r] \in {"none", "timeout", "cleanup_failed"}

\* A run goes on only with its group gone and the leader's return code zero.
Quiet(r) ==
    /\ pc[r] = "take_logs" /\ outcome[r] = "none" => group[r] = {}
    /\ pc[r] \in Judging \cup Building \cup Releasing \cup {"sync_parent"} =>
           group[r] = {} /\ status[r] = {0}

Scored(r) ==
    /\ pc[r] = "score" => taken[r] # {}
    /\ pc[r] \in Building => taken[r] \in {{"good"}, {"telling"}}
    /\ pc[r] \in Releasing => taken[r] = {"good"}

StagingFits(r) ==
    /\ staging[r] \subseteq {Directory({r}, {}), Directory({r}, taken[r])}
    /\ pc[r] \in Preparing \cup Supervising \cup Judging => staging[r] = {}
    /\ pc[r] \in {"find_destination_again", "make_staging", "sync_parent"} => staging[r] = {}
    /\ pc[r] \in {"verify_bundle"} \cup Releasing => staging[r] = {Directory({r}, taken[r])}
    /\ pc[r] \in {"remove_sandbox", "answered"} /\ ~broken[r] => staging[r] = {}

DestinationIsOwn(r) ==
    /\ Here(r) => group[r] = {} /\ status[r] = {0} /\ taken[r] = {"good"}
    /\ pc[r] \in Unpublished => ~Here(r)
    /\ pc[r] = "sync_parent" => Here(r)
    /\ pc[r] \in {"give_up", "remove_sandbox"} => (Here(r) <=> outcome[r] \in {"ok", "unconfirmed"})
    /\ pc[r] = "answered" /\ outcome[r] # "local_io" =>
           (Here(r) <=> outcome[r] \in {"ok", "unconfirmed"})

Consistent(r) ==
    OutcomeFits(r) /\ Quiet(r) /\ Scored(r) /\ StagingFits(r) /\ DestinationIsOwn(r)

RunInv == Typed /\ DestinationFits /\ LockFits /\ \A r \in Runs : Consistent(r)

-----------------------------------------------------------------------------
(* The tables of labels, read out.                                         *)
LEMMA Tables ==
    /\ DOMAIN Before \subseteq Preparing /\ DOMAIN Copied \subseteq Preparing
    /\ DOMAIN Again \subseteq Judging
    /\ \A l \in DOMAIN Before : Before[l][2] \in Preparing
    /\ \A l \in DOMAIN Copied : Copied[l][2] \in Preparing
    /\ \A l \in DOMAIN Again : Again[l][2] \in Judging \ {"score"}
<1>1. DOMAIN Before \subseteq Preparing /\ \A l \in DOMAIN Before : Before[l][2] \in Preparing
  BY DEF Before, Preparing
<1>2. DOMAIN Copied \subseteq Preparing /\ \A l \in DOMAIN Copied : Copied[l][2] \in Preparing
  BY DEF Copied, Preparing
<1>3. DOMAIN Again \subseteq Judging /\ \A l \in DOMAIN Again : Again[l][2] \in Judging \ {"score"}
  BY DEF Again, Judging
<1> QED BY <1>1, <1>2, <1>3

(* Where a run can go next is one of its labels.                           *)
LEMMA NextLabels ==
    /\ Preparing \subseteq AllLabels /\ Judging \subseteq AllLabels
    /\ {"verify_plan", "verify_evaluator", "verify_statement", "copy_assets", "copy_model", "wait", "terminate", "kill", "take_logs",
        "recheck_plan", "score", "find_destination_again", "make_staging", "write_members",
        "verify_bundle", "lock", "look_again", "rename", "sync_parent", "give_up",
        "remove_sandbox", "answered", "crashed"} \subseteq AllLabels
  BY DEF AllLabels, Unpublished, Preparing, Supervising, Judging, Building, Releasing, Closing

(* The labels of the invariant are those of the type invariant.            *)
LEMMA LabelsAgree == AllLabels = Labels
  BY DEF AllLabels, Labels, Unpublished, Preparing, Supervising, Judging, Building, Releasing,
         Closing, Before, Copied, Again, Ended

(* A destination that is some run's is that run's own good bundle.         *)
LEMMA PublishedIsHere ==
    ASSUME DestinationFits, NEW r \in Runs
    PROVE  Published(r) <=> Here(r)
<1>1. CASE dest = {}
  BY <1>1 DEF Published, Here
<1>2. CASE dest = {Foreign}
  <2>1. Foreign.run = {} /\ Bundle(r).run = {r}  BY DEF Foreign, Bundle, Directory
  <2> QED BY <1>2, <2>1 DEF Published, Here
<1>3. ASSUME NEW q \in Runs, Here(q) PROVE Published(r) <=> Here(r)
  <2>1. Bundle(q).run = {q} /\ Bundle(r).run = {r}  BY DEF Bundle, Directory
  <2>2. CASE q = r
    BY <1>3, <2>1, <2>2 DEF Published, Here
  <2>3. CASE q # r
    BY <1>3, <2>1, <2>3 DEF Published, Here
  <2> QED BY <2>2, <2>3
<1> QED BY <1>1, <1>2, <1>3 DEF DestinationFits

(* The initial states.                                                     *)
LEMMA InitInv == Init => RunInv
<1> SUFFICES ASSUME Init PROVE RunInv
  OBVIOUS
<1>1. Typed
  BY EditedAssumption, MaxEditsAssumption DEF Init, Typed, Maybe, Outputs, Outcomes, AllLabels,
     Unpublished,
     Preparing, Building
<1>2. DestinationFits /\ LockFits
  BY DEF Init, DestinationFits, LockFits
<1>3. ASSUME NEW r \in Runs PROVE Consistent(r)
  <2>1. /\ pc[r] \in {"find_destination_again", "import"} /\ group[r] = {}
        /\ staging[r] = {} /\ outcome[r] = "none" /\ ~Here(r)
        /\ pc[r] = "find_destination_again" => status[r] = {0} /\ taken[r] = {"good"}
    BY DEF Init, Here
  <2> QED
    BY <2>1 DEF Consistent, OutcomeFits, Quiet, Scored, StagingFits, DestinationIsOwn,
       Unpublished,
       Preparing, Supervising, Judging, Building, Releasing, Closing
<1> QED BY <1>1, <1>2, <1>3 DEF RunInv

(* So does an empty staging directory, until a bundle is due in it.        *)
LEMMA StagingStays ==
    ASSUME NEW r, StagingFits(r), staging'[r] = staging[r],
           staging[r] = {}, pc'[r] \notin {"verify_bundle"} \cup Releasing
    PROVE  StagingFits(r)'
  BY DEF StagingFits, Preparing, Supervising, Judging, Releasing

(* A single run's facts survive a step that leaves its variables alone.    *)
LEMMA Frame ==
    ASSUME NEW q, Consistent(q),
           pc'[q] = pc[q], group'[q] = group[q], status'[q] = status[q], taken'[q] = taken[q],
           staging'[q] = staging[q], outcome'[q] = outcome[q], broken'[q] = broken[q],
           Here(q)' <=> Here(q)
    PROVE  Consistent(q)'
  BY DEF Consistent, OutcomeFits, Quiet, Scored, StagingFits, DestinationIsOwn

-----------------------------------------------------------------------------
OthersStay(r) ==
    \A q \in Runs \ {r} :
        /\ pc'[q] = pc[q] /\ group'[q] = group[q] /\ status'[q] = status[q]
        /\ taken'[q] = taken[q] /\ staging'[q] = staging[q]
        /\ outcome'[q] = outcome[q] /\ broken'[q] = broken[q]

\* A step of run r that touches no other run's variables, nor the destination.
Keeps(r) ==
    /\ Typed'
    /\ OthersStay(r)
    /\ Consistent(r)'

(* The modules are loaded.                                                 *)
LEMMA ImportKeeps ==
    ASSUME RunInv, NEW r \in Runs, Import(r) PROVE Keeps(r) /\ LockFits' /\ dest' = dest
<1> USE DEF Import, Uses, Goto, Answer, Fail, Abandon, process, publication, world
<1>1. Typed'
  BY Tables, NextLabels DEF RunInv, Typed, Maybe, Outcomes
<1>2. LockFits' /\ dest' = dest
  BY Tables DEF RunInv, Typed, LockFits, Maybe, Preparing, Judging
<1>3. Consistent(r)'
  <2>1. OutcomeFits(r)'
    BY Tables DEF RunInv, Typed, Consistent, OutcomeFits, Unpublished, Preparing, Supervising,
       Judging, Building, Releasing, Closing, Ended
  <2>2. Quiet(r)'
    BY Tables DEF RunInv, Typed, Consistent, Quiet, Preparing, Supervising, Judging, Building,
       Releasing, Ended
  <2>3. Scored(r)'
    BY Tables DEF RunInv, Typed, Consistent, Scored, Preparing, Supervising, Judging, Building,
       Releasing, Ended, Maybe, Outputs
  <2>4. StagingFits(r)'
    <3>1. StagingFits(r) /\ staging'[r] = staging[r]
      BY DEF RunInv, Consistent
    <3>2. staging[r] = {} /\ pc'[r] \notin {"verify_bundle"} \cup Releasing
      BY <3>1, Tables DEF RunInv, Typed, StagingFits, Preparing, Supervising, Judging, Releasing,
         Ended
    <3> QED BY <3>1, <3>2, StagingStays
  <2>5. DestinationIsOwn(r)'
    BY Tables DEF RunInv, Typed, Consistent, DestinationIsOwn, Here, OutcomeFits, Quiet,
       Unpublished, Preparing, Supervising, Judging, Building, Releasing, Closing, Ended
  <2> QED BY <2>1, <2>2, <2>3, <2>4, <2>5 DEF Consistent
<1>4. OthersStay(r)
  BY DEF RunInv, Typed, OthersStay
<1> QED BY <1>1, <1>2, <1>3, <1>4 DEF Keeps

(* A file is checked against the plan before the sandbox exists.           *)
LEMMA VerifyBeforeKeeps ==
    ASSUME RunInv, NEW r \in Runs, VerifyBefore(r) PROVE Keeps(r) /\ LockFits' /\ dest' = dest
<1> USE DEF VerifyBefore, Uses, Goto, Answer, Fail, Abandon, process, publication, world
<1>1. Typed'
  BY Tables, NextLabels DEF RunInv, Typed, Maybe, Outcomes
<1>2. LockFits' /\ dest' = dest
  BY Tables DEF RunInv, Typed, LockFits, Maybe, Preparing, Judging
<1>3. Consistent(r)'
  <2>1. OutcomeFits(r)'
    BY Tables DEF RunInv, Typed, Consistent, OutcomeFits, Unpublished, Preparing, Supervising,
       Judging, Building, Releasing, Closing, Ended
  <2>2. Quiet(r)'
    BY Tables DEF RunInv, Typed, Consistent, Quiet, Preparing, Supervising, Judging, Building,
       Releasing, Ended
  <2>3. Scored(r)'
    BY Tables DEF RunInv, Typed, Consistent, Scored, Preparing, Supervising, Judging, Building,
       Releasing, Ended, Maybe, Outputs
  <2>4. StagingFits(r)'
    <3>1. StagingFits(r) /\ staging'[r] = staging[r]
      BY DEF RunInv, Consistent
    <3>2. staging[r] = {} /\ pc'[r] \notin {"verify_bundle"} \cup Releasing
      BY <3>1, Tables DEF RunInv, Typed, StagingFits, Preparing, Supervising, Judging, Releasing,
         Ended
    <3> QED BY <3>1, <3>2, StagingStays
  <2>5. DestinationIsOwn(r)'
    BY Tables DEF RunInv, Typed, Consistent, DestinationIsOwn, Here, OutcomeFits, Quiet,
       Unpublished, Preparing, Supervising, Judging, Building, Releasing, Closing, Ended
  <2> QED BY <2>1, <2>2, <2>3, <2>4, <2>5 DEF Consistent
<1>4. OthersStay(r)
  BY DEF RunInv, Typed, OthersStay
<1> QED BY <1>1, <1>2, <1>3, <1>4 DEF Keeps

(* The destination is looked for a first time.                             *)
LEMMA FindDestinationKeeps ==
    ASSUME RunInv, NEW r \in Runs, FindDestination(r) PROVE Keeps(r) /\ LockFits' /\ dest' = dest
<1> USE DEF FindDestination, Goto, Answer, Fail, Abandon, process, publication, world
<1>1. Typed'
  BY Tables, NextLabels DEF RunInv, Typed, Maybe, Outcomes
<1>2. LockFits' /\ dest' = dest
  BY Tables DEF RunInv, Typed, LockFits, Maybe, Preparing, Judging
<1>3. Consistent(r)'
  <2>1. OutcomeFits(r)'
    BY Tables DEF RunInv, Typed, Consistent, OutcomeFits, Unpublished, Preparing, Supervising,
       Judging, Building, Releasing, Closing, Ended
  <2>2. Quiet(r)'
    BY Tables DEF RunInv, Typed, Consistent, Quiet, Preparing, Supervising, Judging, Building,
       Releasing, Ended
  <2>3. Scored(r)'
    BY Tables DEF RunInv, Typed, Consistent, Scored, Preparing, Supervising, Judging, Building,
       Releasing, Ended, Maybe, Outputs
  <2>4. StagingFits(r)'
    <3>1. StagingFits(r) /\ staging'[r] = staging[r]
      BY DEF RunInv, Consistent
    <3>2. staging[r] = {} /\ pc'[r] \notin {"verify_bundle"} \cup Releasing
      BY <3>1, Tables DEF RunInv, Typed, StagingFits, Preparing, Supervising, Judging, Releasing,
         Ended
    <3> QED BY <3>1, <3>2, StagingStays
  <2>5. DestinationIsOwn(r)'
    BY Tables DEF RunInv, Typed, Consistent, DestinationIsOwn, Here, OutcomeFits, Quiet,
       Unpublished, Preparing, Supervising, Judging, Building, Releasing, Closing, Ended
  <2> QED BY <2>1, <2>2, <2>3, <2>4, <2>5 DEF Consistent
<1>4. OthersStay(r)
  BY DEF RunInv, Typed, OthersStay
<1> QED BY <1>1, <1>2, <1>3, <1>4 DEF Keeps

(* The manifest is read a second time.                                     *)
LEMMA LoadCasesKeeps ==
    ASSUME RunInv, NEW r \in Runs, LoadCases(r) PROVE Keeps(r) /\ LockFits' /\ dest' = dest
<1> USE DEF LoadCases, Uses, Goto, Answer, Fail, Abandon, process, publication, world
<1>1. Typed'
  BY Tables, NextLabels DEF RunInv, Typed, Maybe, Outcomes
<1>2. LockFits' /\ dest' = dest
  BY Tables DEF RunInv, Typed, LockFits, Maybe, Preparing, Judging
<1>3. Consistent(r)'
  <2>1. OutcomeFits(r)'
    BY Tables DEF RunInv, Typed, Consistent, OutcomeFits, Unpublished, Preparing, Supervising,
       Judging, Building, Releasing, Closing, Ended
  <2>2. Quiet(r)'
    BY Tables DEF RunInv, Typed, Consistent, Quiet, Preparing, Supervising, Judging, Building,
       Releasing, Ended
  <2>3. Scored(r)'
    BY Tables DEF RunInv, Typed, Consistent, Scored, Preparing, Supervising, Judging, Building,
       Releasing, Ended, Maybe, Outputs
  <2>4. StagingFits(r)'
    <3>1. StagingFits(r) /\ staging'[r] = staging[r]
      BY DEF RunInv, Consistent
    <3>2. staging[r] = {} /\ pc'[r] \notin {"verify_bundle"} \cup Releasing
      BY <3>1, Tables DEF RunInv, Typed, StagingFits, Preparing, Supervising, Judging, Releasing,
         Ended
    <3> QED BY <3>1, <3>2, StagingStays
  <2>5. DestinationIsOwn(r)'
    BY Tables DEF RunInv, Typed, Consistent, DestinationIsOwn, Here, OutcomeFits, Quiet,
       Unpublished, Preparing, Supervising, Judging, Building, Releasing, Closing, Ended
  <2> QED BY <2>1, <2>2, <2>3, <2>4, <2>5 DEF Consistent
<1>4. OthersStay(r)
  BY DEF RunInv, Typed, OthersStay
<1> QED BY <1>1, <1>2, <1>3, <1>4 DEF Keeps

(* The supervisor is put into the sandbox.                                 *)
LEMMA CopySupervisorKeeps ==
    ASSUME RunInv, NEW r \in Runs, CopySupervisor(r) PROVE Keeps(r) /\ LockFits' /\ dest' = dest
<1> USE DEF CopySupervisor, Uses, Goto, Answer, Fail, Abandon, process, publication, world
<1>1. Typed'
  BY Tables, NextLabels DEF RunInv, Typed, Maybe, Outcomes
<1>2. LockFits' /\ dest' = dest
  BY Tables DEF RunInv, Typed, LockFits, Maybe, Preparing, Judging
<1>3. Consistent(r)'
  <2>1. OutcomeFits(r)'
    BY Tables DEF RunInv, Typed, Consistent, OutcomeFits, Unpublished, Preparing, Supervising,
       Judging, Building, Releasing, Closing, Ended
  <2>2. Quiet(r)'
    BY Tables DEF RunInv, Typed, Consistent, Quiet, Preparing, Supervising, Judging, Building,
       Releasing, Ended
  <2>3. Scored(r)'
    BY Tables DEF RunInv, Typed, Consistent, Scored, Preparing, Supervising, Judging, Building,
       Releasing, Ended, Maybe, Outputs
  <2>4. StagingFits(r)'
    <3>1. StagingFits(r) /\ staging'[r] = staging[r]
      BY DEF RunInv, Consistent
    <3>2. staging[r] = {} /\ pc'[r] \notin {"verify_bundle"} \cup Releasing
      BY <3>1, Tables DEF RunInv, Typed, StagingFits, Preparing, Supervising, Judging, Releasing,
         Ended
    <3> QED BY <3>1, <3>2, StagingStays
  <2>5. DestinationIsOwn(r)'
    BY Tables DEF RunInv, Typed, Consistent, DestinationIsOwn, Here, OutcomeFits, Quiet,
       Unpublished, Preparing, Supervising, Judging, Building, Releasing, Closing, Ended
  <2> QED BY <2>1, <2>2, <2>3, <2>4, <2>5 DEF Consistent
<1>4. OthersStay(r)
  BY DEF RunInv, Typed, OthersStay
<1> QED BY <1>1, <1>2, <1>3, <1>4 DEF Keeps

(* The assets are put into the sandbox.                                    *)
LEMMA CopyAssetsKeeps ==
    ASSUME RunInv, NEW r \in Runs, CopyAssets(r) PROVE Keeps(r) /\ LockFits' /\ dest' = dest
<1> USE DEF CopyAssets, Uses, Goto, Answer, Fail, Abandon, process, publication, world
<1>1. Typed'
  BY Tables, NextLabels DEF RunInv, Typed, Maybe, Outcomes
<1>2. LockFits' /\ dest' = dest
  BY Tables DEF RunInv, Typed, LockFits, Maybe, Preparing, Judging
<1>3. Consistent(r)'
  <2>1. OutcomeFits(r)'
    BY Tables DEF RunInv, Typed, Consistent, OutcomeFits, Unpublished, Preparing, Supervising,
       Judging, Building, Releasing, Closing, Ended
  <2>2. Quiet(r)'
    BY Tables DEF RunInv, Typed, Consistent, Quiet, Preparing, Supervising, Judging, Building,
       Releasing, Ended
  <2>3. Scored(r)'
    BY Tables DEF RunInv, Typed, Consistent, Scored, Preparing, Supervising, Judging, Building,
       Releasing, Ended, Maybe, Outputs
  <2>4. StagingFits(r)'
    <3>1. StagingFits(r) /\ staging'[r] = staging[r]
      BY DEF RunInv, Consistent
    <3>2. staging[r] = {} /\ pc'[r] \notin {"verify_bundle"} \cup Releasing
      BY <3>1, Tables DEF RunInv, Typed, StagingFits, Preparing, Supervising, Judging, Releasing,
         Ended
    <3> QED BY <3>1, <3>2, StagingStays
  <2>5. DestinationIsOwn(r)'
    BY Tables DEF RunInv, Typed, Consistent, DestinationIsOwn, Here, OutcomeFits, Quiet,
       Unpublished, Preparing, Supervising, Judging, Building, Releasing, Closing, Ended
  <2> QED BY <2>1, <2>2, <2>3, <2>4, <2>5 DEF Consistent
<1>4. OthersStay(r)
  BY DEF RunInv, Typed, OthersStay
<1> QED BY <1>1, <1>2, <1>3, <1>4 DEF Keeps

(* A file is copied and hashed in one pass.                                *)
LEMMA CopyKeeps ==
    ASSUME RunInv, NEW r \in Runs, Copy(r) PROVE Keeps(r) /\ LockFits' /\ dest' = dest
<1> USE DEF Copy, Uses, Goto, Answer, Fail, Abandon, process, publication, world
<1>1. Typed'
  BY Tables, NextLabels DEF RunInv, Typed, Maybe, Outcomes
<1>2. LockFits' /\ dest' = dest
  BY Tables DEF RunInv, Typed, LockFits, Maybe, Preparing, Judging
<1>3. Consistent(r)'
  <2>1. OutcomeFits(r)'
    BY Tables DEF RunInv, Typed, Consistent, OutcomeFits, Unpublished, Preparing, Supervising,
       Judging, Building, Releasing, Closing, Ended
  <2>2. Quiet(r)'
    BY Tables DEF RunInv, Typed, Consistent, Quiet, Preparing, Supervising, Judging, Building,
       Releasing, Ended
  <2>3. Scored(r)'
    BY Tables DEF RunInv, Typed, Consistent, Scored, Preparing, Supervising, Judging, Building,
       Releasing, Ended, Maybe, Outputs
  <2>4. StagingFits(r)'
    <3>1. StagingFits(r) /\ staging'[r] = staging[r]
      BY DEF RunInv, Consistent
    <3>2. staging[r] = {} /\ pc'[r] \notin {"verify_bundle"} \cup Releasing
      BY <3>1, Tables DEF RunInv, Typed, StagingFits, Preparing, Supervising, Judging, Releasing,
         Ended
    <3> QED BY <3>1, <3>2, StagingStays
  <2>5. DestinationIsOwn(r)'
    BY Tables DEF RunInv, Typed, Consistent, DestinationIsOwn, Here, OutcomeFits, Quiet,
       Unpublished, Preparing, Supervising, Judging, Building, Releasing, Closing, Ended
  <2> QED BY <2>1, <2>2, <2>3, <2>4, <2>5 DEF Consistent
<1>4. OthersStay(r)
  BY DEF RunInv, Typed, OthersStay
<1> QED BY <1>1, <1>2, <1>3, <1>4 DEF Keeps

(* The predictor starts in a group of its own.                             *)
LEMMA StartKeeps ==
    ASSUME RunInv, NEW r \in Runs, Start(r) PROVE Keeps(r) /\ LockFits' /\ dest' = dest
<1> USE DEF Start, Goto, Answer, Fail, Abandon, process, publication, world
<1>1. Typed'
  BY Tables, NextLabels DEF RunInv, Typed, Maybe, Outcomes
<1>2. LockFits' /\ dest' = dest
  BY Tables DEF RunInv, Typed, LockFits, Maybe, Preparing, Judging
<1>3. Consistent(r)'
  <2>1. OutcomeFits(r)'
    BY Tables DEF RunInv, Typed, Consistent, OutcomeFits, Unpublished, Preparing, Supervising,
       Judging, Building, Releasing, Closing, Ended
  <2>2. Quiet(r)'
    BY Tables DEF RunInv, Typed, Consistent, Quiet, Preparing, Supervising, Judging, Building,
       Releasing, Ended
  <2>3. Scored(r)'
    BY Tables DEF RunInv, Typed, Consistent, Scored, Preparing, Supervising, Judging, Building,
       Releasing, Ended, Maybe, Outputs
  <2>4. StagingFits(r)'
    BY Tables DEF RunInv, Typed, Consistent, StagingFits, Preparing, Supervising, Judging,
       Building, Releasing, Ended
  <2>5. DestinationIsOwn(r)'
    BY Tables DEF RunInv, Typed, Consistent, DestinationIsOwn, Here, OutcomeFits, Quiet,
       Unpublished, Preparing, Supervising, Judging, Building, Releasing, Closing, Ended
  <2> QED BY <2>1, <2>2, <2>3, <2>4, <2>5 DEF Consistent
<1>4. OthersStay(r)
  BY DEF RunInv, Typed, OthersStay
<1> QED BY <1>1, <1>2, <1>3, <1>4 DEF Keeps

(* The wait ends with the leader.                                          *)
LEMMA WaitReturnsKeeps ==
    ASSUME RunInv, NEW r \in Runs, WaitReturns(r) PROVE Keeps(r) /\ LockFits' /\ dest' = dest
<1> USE DEF WaitReturns, Goto, Answer, Fail, Abandon, process, publication, world
<1>1. Typed'
  BY Tables, NextLabels DEF RunInv, Typed, Maybe, Outcomes
<1>2. LockFits' /\ dest' = dest
  BY Tables DEF RunInv, Typed, LockFits, Maybe, Preparing, Judging
<1>3. Consistent(r)'
  <2>1. OutcomeFits(r)'
    BY Tables DEF RunInv, Typed, Consistent, OutcomeFits, Unpublished, Preparing, Supervising,
       Judging, Building, Releasing, Closing, Ended
  <2>2. Quiet(r)'
    BY Tables DEF RunInv, Typed, Consistent, Quiet, Preparing, Supervising, Judging, Building,
       Releasing, Ended
  <2>3. Scored(r)'
    BY Tables DEF RunInv, Typed, Consistent, Scored, Preparing, Supervising, Judging, Building,
       Releasing, Ended, Maybe, Outputs
  <2>4. StagingFits(r)'
    BY Tables DEF RunInv, Typed, Consistent, StagingFits, Preparing, Supervising, Judging,
       Building, Releasing, Ended
  <2>5. DestinationIsOwn(r)'
    BY Tables DEF RunInv, Typed, Consistent, DestinationIsOwn, Here, OutcomeFits, Quiet,
       Unpublished, Preparing, Supervising, Judging, Building, Releasing, Closing, Ended
  <2> QED BY <2>1, <2>2, <2>3, <2>4, <2>5 DEF Consistent
<1>4. OthersStay(r)
  BY DEF RunInv, Typed, OthersStay
<1> QED BY <1>1, <1>2, <1>3, <1>4 DEF Keeps

(* The wait ends with the time limit.                                      *)
LEMMA TimeIsUpKeeps ==
    ASSUME RunInv, NEW r \in Runs, TimeIsUp(r) PROVE Keeps(r) /\ LockFits' /\ dest' = dest
<1> USE DEF TimeIsUp, Goto, Answer, Fail, Abandon, process, publication, world
<1>1. Typed'
  BY Tables, NextLabels DEF RunInv, Typed, Maybe, Outcomes
<1>2. LockFits' /\ dest' = dest
  BY Tables DEF RunInv, Typed, LockFits, Maybe, Preparing, Judging
<1>3. Consistent(r)'
  <2>1. OutcomeFits(r)'
    BY Tables DEF RunInv, Typed, Consistent, OutcomeFits, Unpublished, Preparing, Supervising,
       Judging, Building, Releasing, Closing, Ended
  <2>2. Quiet(r)'
    BY Tables DEF RunInv, Typed, Consistent, Quiet, Preparing, Supervising, Judging, Building,
       Releasing, Ended
  <2>3. Scored(r)'
    BY Tables DEF RunInv, Typed, Consistent, Scored, Preparing, Supervising, Judging, Building,
       Releasing, Ended, Maybe, Outputs
  <2>4. StagingFits(r)'
    BY Tables DEF RunInv, Typed, Consistent, StagingFits, Preparing, Supervising, Judging,
       Building, Releasing, Ended
  <2>5. DestinationIsOwn(r)'
    BY Tables DEF RunInv, Typed, Consistent, DestinationIsOwn, Here, OutcomeFits, Quiet,
       Unpublished, Preparing, Supervising, Judging, Building, Releasing, Closing, Ended
  <2> QED BY <2>1, <2>2, <2>3, <2>4, <2>5 DEF Consistent
<1>4. OthersStay(r)
  BY DEF RunInv, Typed, OthersStay
<1> QED BY <1>1, <1>2, <1>3, <1>4 DEF Keeps

(* SIGTERM is ignored by some, or refused; a refusal is remembered.        *)
LEMMA TerminateKeeps ==
    ASSUME RunInv, NEW r \in Runs, Terminate(r) PROVE Keeps(r) /\ LockFits' /\ dest' = dest
<1> USE DEF Terminate, Goto, Answer, Fail, Abandon, process, publication, world
<1>1. Typed'
  BY Tables, NextLabels DEF RunInv, Typed, Maybe, Outcomes
<1>2. LockFits' /\ dest' = dest
  BY Tables DEF RunInv, Typed, LockFits, Maybe, Preparing, Judging
<1>3. Consistent(r)'
  <2>1. OutcomeFits(r)'
    BY Tables DEF RunInv, Typed, Consistent, OutcomeFits, Unpublished, Preparing, Supervising,
       Judging, Building, Releasing, Closing, Ended
  <2>2. Quiet(r)'
    BY Tables DEF RunInv, Typed, Consistent, Quiet, Preparing, Supervising, Judging, Building,
       Releasing, Ended
  <2>3. Scored(r)'
    BY Tables DEF RunInv, Typed, Consistent, Scored, Preparing, Supervising, Judging, Building,
       Releasing, Ended, Maybe, Outputs
  <2>4. StagingFits(r)'
    BY Tables DEF RunInv, Typed, Consistent, StagingFits, Preparing, Supervising, Judging,
       Building, Releasing, Ended
  <2>5. DestinationIsOwn(r)'
    BY Tables DEF RunInv, Typed, Consistent, DestinationIsOwn, Here, OutcomeFits, Quiet,
       Unpublished, Preparing, Supervising, Judging, Building, Releasing, Closing, Ended
  <2> QED BY <2>1, <2>2, <2>3, <2>4, <2>5 DEF Consistent
<1>4. OthersStay(r)
  BY DEF RunInv, Typed, OthersStay
<1> QED BY <1>1, <1>2, <1>3, <1>4 DEF Keeps

(* A run without an error on its mind has killed the whole group.          *)
LEMMA KillKeeps ==
    ASSUME RunInv, NEW r \in Runs, Kill(r) PROVE Keeps(r) /\ LockFits' /\ dest' = dest
<1> USE DEF Kill, Goto, Answer, Fail, Abandon, process, publication, world
<1>1. Typed'
  BY Tables, NextLabels DEF RunInv, Typed, Maybe, Outcomes
<1>2. LockFits' /\ dest' = dest
  BY Tables DEF RunInv, Typed, LockFits, Maybe, Preparing, Judging
<1>3. Consistent(r)'
  <2>1. OutcomeFits(r)'
    BY Tables DEF RunInv, Typed, Consistent, OutcomeFits, Unpublished, Preparing, Supervising,
       Judging, Building, Releasing, Closing, Ended
  <2>2. Quiet(r)'
    BY Tables DEF RunInv, Typed, Consistent, Quiet, Preparing, Supervising, Judging, Building,
       Releasing, Ended
  <2>3. Scored(r)'
    BY Tables DEF RunInv, Typed, Consistent, Scored, Preparing, Supervising, Judging, Building,
       Releasing, Ended, Maybe, Outputs
  <2>4. StagingFits(r)'
    BY Tables DEF RunInv, Typed, Consistent, StagingFits, Preparing, Supervising, Judging,
       Building, Releasing, Ended
  <2>5. DestinationIsOwn(r)'
    BY Tables DEF RunInv, Typed, Consistent, DestinationIsOwn, Here, OutcomeFits, Quiet,
       Unpublished, Preparing, Supervising, Judging, Building, Releasing, Closing, Ended
  <2> QED BY <2>1, <2>2, <2>3, <2>4, <2>5 DEF Consistent
<1>4. OthersStay(r)
  BY DEF RunInv, Typed, OthersStay
<1> QED BY <1>1, <1>2, <1>3, <1>4 DEF Keeps

(* Only a run whose group is gone and whose leader returned zero goes on.  *)
LEMMA TakeLogsKeeps ==
    ASSUME RunInv, NEW r \in Runs, TakeLogs(r) PROVE Keeps(r) /\ LockFits' /\ dest' = dest
<1> USE DEF TakeLogs, Goto, Answer, Fail, Abandon, process, publication, world
<1>1. Typed'
  BY Tables, NextLabels DEF RunInv, Typed, Maybe, Outcomes
<1>2. LockFits' /\ dest' = dest
  BY Tables DEF RunInv, Typed, LockFits, Maybe, Preparing, Judging
<1>3. Consistent(r)'
  <2>1. OutcomeFits(r)'
    BY Tables DEF RunInv, Typed, Consistent, OutcomeFits, Unpublished, Preparing, Supervising,
       Judging, Building, Releasing, Closing, Ended
  <2>2. Quiet(r)'
    BY Tables DEF RunInv, Typed, Consistent, Quiet, Preparing, Supervising, Judging, Building,
       Releasing, Ended
  <2>3. Scored(r)'
    BY Tables DEF RunInv, Typed, Consistent, Scored, Preparing, Supervising, Judging, Building,
       Releasing, Ended, Maybe, Outputs
  <2>4. StagingFits(r)'
    <3>1. StagingFits(r) /\ staging'[r] = staging[r]
      BY DEF RunInv, Consistent
    <3>2. staging[r] = {} /\ pc'[r] \notin {"verify_bundle"} \cup Releasing
      BY <3>1, Tables DEF RunInv, Typed, StagingFits, Preparing, Supervising, Judging, Releasing,
         Ended
    <3> QED BY <3>1, <3>2, StagingStays
  <2>5. DestinationIsOwn(r)'
    BY Tables DEF RunInv, Typed, Consistent, DestinationIsOwn, Here, OutcomeFits, Quiet,
       Unpublished, Preparing, Supervising, Judging, Building, Releasing, Closing, Ended
  <2> QED BY <2>1, <2>2, <2>3, <2>4, <2>5 DEF Consistent
<1>4. OthersStay(r)
  BY DEF RunInv, Typed, OthersStay
<1> QED BY <1>1, <1>2, <1>3, <1>4 DEF Keeps

(* A file is checked again after the process.                              *)
LEMMA VerifyAgainKeeps ==
    ASSUME RunInv, NEW r \in Runs, VerifyAgain(r) PROVE Keeps(r) /\ LockFits' /\ dest' = dest
<1> USE DEF VerifyAgain, Goto, Answer, Fail, Abandon, process, publication, world
<1>1. Typed'
  BY Tables, NextLabels DEF RunInv, Typed, Maybe, Outcomes
<1>2. LockFits' /\ dest' = dest
  BY Tables DEF RunInv, Typed, LockFits, Maybe, Preparing, Judging
<1>3. Consistent(r)'
  <2>1. OutcomeFits(r)'
    BY Tables DEF RunInv, Typed, Consistent, OutcomeFits, Unpublished, Preparing, Supervising,
       Judging, Building, Releasing, Closing, Ended
  <2>2. Quiet(r)'
    BY Tables DEF RunInv, Typed, Consistent, Quiet, Preparing, Supervising, Judging, Building,
       Releasing, Ended
  <2>3. Scored(r)'
    BY Tables DEF RunInv, Typed, Consistent, Scored, Preparing, Supervising, Judging, Building,
       Releasing, Ended, Maybe, Outputs
  <2>4. StagingFits(r)'
    <3>1. StagingFits(r) /\ staging'[r] = staging[r]
      BY DEF RunInv, Consistent
    <3>2. staging[r] = {} /\ pc'[r] \notin {"verify_bundle"} \cup Releasing
      BY <3>1, Tables DEF RunInv, Typed, StagingFits, Preparing, Supervising, Judging, Releasing,
         Ended
    <3> QED BY <3>1, <3>2, StagingStays
  <2>5. DestinationIsOwn(r)'
    BY Tables DEF RunInv, Typed, Consistent, DestinationIsOwn, Here, OutcomeFits, Quiet,
       Unpublished, Preparing, Supervising, Judging, Building, Releasing, Closing, Ended
  <2> QED BY <2>1, <2>2, <2>3, <2>4, <2>5 DEF Consistent
<1>4. OthersStay(r)
  BY DEF RunInv, Typed, OthersStay
<1> QED BY <1>1, <1>2, <1>3, <1>4 DEF Keeps

(* The snapshot of the predictions is not empty.                           *)
LEMMA TakePredictionsKeeps ==
    ASSUME RunInv, NEW r \in Runs, TakePredictions(r) PROVE Keeps(r) /\ LockFits' /\ dest' = dest
<1> USE DEF TakePredictions, Goto, Answer, Fail, Abandon, process, publication, world
<1>1. Typed'
  BY Tables, NextLabels DEF RunInv, Typed, Maybe, Outcomes
<1>2. LockFits' /\ dest' = dest
  BY Tables DEF RunInv, Typed, LockFits, Maybe, Preparing, Judging
<1>3. Consistent(r)'
  <2>1. OutcomeFits(r)'
    BY Tables DEF RunInv, Typed, Consistent, OutcomeFits, Unpublished, Preparing, Supervising,
       Judging, Building, Releasing, Closing, Ended
  <2>2. Quiet(r)'
    BY Tables DEF RunInv, Typed, Consistent, Quiet, Preparing, Supervising, Judging, Building,
       Releasing, Ended
  <2>3. Scored(r)'
    BY Tables DEF RunInv, Typed, Consistent, Scored, Preparing, Supervising, Judging, Building,
       Releasing, Ended, Maybe, Outputs
  <2>4. StagingFits(r)'
    <3>1. StagingFits(r) /\ staging'[r] = staging[r]
      BY DEF RunInv, Consistent
    <3>3. pc'[r] \in {"score", "remove_sandbox"}
      BY DEF RunInv, Typed
    <3>2. staging[r] = {} /\ pc'[r] \notin {"verify_bundle"} \cup Releasing
      <4>1. staging[r] = {}
        BY <3>1 DEF StagingFits, Judging
      <4>2. pc'[r] \notin {"verify_bundle"} \cup Releasing
        BY ONLY <3>3 DEF Releasing
      <4> QED BY ONLY <4>1, <4>2
    <3> QED BY <3>1, <3>2, StagingStays
  <2>5. DestinationIsOwn(r)'
    BY Tables DEF RunInv, Typed, Consistent, DestinationIsOwn, Here, OutcomeFits, Quiet,
       Unpublished, Preparing, Supervising, Judging, Building, Releasing, Closing, Ended
  <2> QED BY <2>1, <2>2, <2>3, <2>4, <2>5 DEF Consistent
<1>4. OthersStay(r)
  BY DEF RunInv, Typed, OthersStay
<1> QED BY <1>1, <1>2, <1>3, <1>4 DEF Keeps

(* Junk is not scored: what is left is good or telling.                    *)
LEMMA ScoreKeeps ==
    ASSUME RunInv, NEW r \in Runs, Score(r) PROVE Keeps(r) /\ LockFits' /\ dest' = dest
<1> USE DEF Score, Uses, Goto, Answer, Fail, Abandon, process, publication, world
<1>1. Typed'
  BY Tables, NextLabels DEF RunInv, Typed, Maybe, Outcomes
<1>2. LockFits' /\ dest' = dest
  BY Tables DEF RunInv, Typed, LockFits, Maybe, Preparing, Judging
<1>3. Consistent(r)'
  <2>1. OutcomeFits(r)'
    BY Tables DEF RunInv, Typed, Consistent, OutcomeFits, Unpublished, Preparing, Supervising,
       Judging, Building, Releasing, Closing, Ended
  <2>2. Quiet(r)'
    BY Tables DEF RunInv, Typed, Consistent, Quiet, Preparing, Supervising, Judging, Building,
       Releasing, Ended
  <2>3. Scored(r)'
    BY Tables DEF RunInv, Typed, Consistent, Scored, Preparing, Supervising, Judging, Building,
       Releasing, Ended, Maybe, Outputs
  <2>4. StagingFits(r)'
    <3>1. StagingFits(r) /\ staging'[r] = staging[r]
      BY DEF RunInv, Consistent
    <3>2. staging[r] = {} /\ pc'[r] \notin {"verify_bundle"} \cup Releasing
      BY <3>1, Tables DEF RunInv, Typed, StagingFits, Preparing, Supervising, Judging, Releasing,
         Ended
    <3> QED BY <3>1, <3>2, StagingStays
  <2>5. DestinationIsOwn(r)'
    BY Tables DEF RunInv, Typed, Consistent, DestinationIsOwn, Here, OutcomeFits, Quiet,
       Unpublished, Preparing, Supervising, Judging, Building, Releasing, Closing, Ended
  <2> QED BY <2>1, <2>2, <2>3, <2>4, <2>5 DEF Consistent
<1>4. OthersStay(r)
  BY DEF RunInv, Typed, OthersStay
<1> QED BY <1>1, <1>2, <1>3, <1>4 DEF Keeps

(* The destination is looked for again.                                    *)
LEMMA FindDestinationAgainKeeps ==
    ASSUME RunInv, NEW r \in Runs, FindDestinationAgain(r) PROVE Keeps(r) /\ LockFits' /\ dest' = dest
<1> USE DEF FindDestinationAgain, Goto, Answer, Fail, Abandon, process, publication, world
<1>1. Typed'
  BY Tables, NextLabels DEF RunInv, Typed, Maybe, Outcomes
<1>2. LockFits' /\ dest' = dest
  BY Tables DEF RunInv, Typed, LockFits, Maybe, Preparing, Judging
<1>3. Consistent(r)'
  <2>1. OutcomeFits(r)'
    BY Tables DEF RunInv, Typed, Consistent, OutcomeFits, Unpublished, Preparing, Supervising,
       Judging, Building, Releasing, Closing, Ended
  <2>2. Quiet(r)'
    BY Tables DEF RunInv, Typed, Consistent, Quiet, Preparing, Supervising, Judging, Building,
       Releasing, Ended
  <2>3. Scored(r)'
    BY Tables DEF RunInv, Typed, Consistent, Scored, Preparing, Supervising, Judging, Building,
       Releasing, Ended, Maybe, Outputs
  <2>4. StagingFits(r)'
    <3>1. StagingFits(r) /\ staging'[r] = staging[r]
      BY DEF RunInv, Consistent
    <3>2. staging[r] = {} /\ pc'[r] \notin {"verify_bundle"} \cup Releasing
      BY <3>1, Tables DEF RunInv, Typed, StagingFits, Preparing, Supervising, Judging, Releasing,
         Ended
    <3> QED BY <3>1, <3>2, StagingStays
  <2>5. DestinationIsOwn(r)'
    BY Tables DEF RunInv, Typed, Consistent, DestinationIsOwn, Here, OutcomeFits, Quiet,
       Unpublished, Preparing, Supervising, Judging, Building, Releasing, Closing, Ended
  <2> QED BY <2>1, <2>2, <2>3, <2>4, <2>5 DEF Consistent
<1>4. OthersStay(r)
  BY DEF RunInv, Typed, OthersStay
<1> QED BY <1>1, <1>2, <1>3, <1>4 DEF Keeps

(* The staging directory is made.                                          *)
LEMMA MakeStagingKeeps ==
    ASSUME RunInv, NEW r \in Runs, MakeStaging(r) PROVE Keeps(r) /\ LockFits' /\ dest' = dest
<1> USE DEF MakeStaging, Goto, Answer, Fail, Abandon, process, publication, world
<1>1. Typed'
  BY Tables, NextLabels DEF RunInv, Typed, Maybe, Outcomes
<1>2. LockFits' /\ dest' = dest
  BY Tables DEF RunInv, Typed, LockFits, Maybe, Preparing, Judging
<1>3. Consistent(r)'
  <2>1. OutcomeFits(r)'
    BY Tables DEF RunInv, Typed, Consistent, OutcomeFits, Unpublished, Preparing, Supervising,
       Judging, Building, Releasing, Closing, Ended
  <2>2. Quiet(r)'
    BY Tables DEF RunInv, Typed, Consistent, Quiet, Preparing, Supervising, Judging, Building,
       Releasing, Ended
  <2>3. Scored(r)'
    BY Tables DEF RunInv, Typed, Consistent, Scored, Preparing, Supervising, Judging, Building,
       Releasing, Ended, Maybe, Outputs
  <2>4. StagingFits(r)'
    BY Tables DEF RunInv, Typed, Consistent, StagingFits, Preparing, Supervising, Judging,
       Building, Releasing, Ended
  <2>5. DestinationIsOwn(r)'
    BY Tables DEF RunInv, Typed, Consistent, DestinationIsOwn, Here, OutcomeFits, Quiet,
       Unpublished, Preparing, Supervising, Judging, Building, Releasing, Closing, Ended
  <2> QED BY <2>1, <2>2, <2>3, <2>4, <2>5 DEF Consistent
<1>4. OthersStay(r)
  BY DEF RunInv, Typed, OthersStay
<1> QED BY <1>1, <1>2, <1>3, <1>4 DEF Keeps

(* The bundle is filled with what was taken.                               *)
LEMMA WriteMembersKeeps ==
    ASSUME RunInv, NEW r \in Runs, WriteMembers(r) PROVE Keeps(r) /\ LockFits' /\ dest' = dest
<1> USE DEF WriteMembers, Goto, Answer, Fail, Abandon, process, publication, world
<1>1. Typed'
  BY Tables, NextLabels DEF RunInv, Typed, Maybe, Outcomes
<1>2. LockFits' /\ dest' = dest
  BY Tables DEF RunInv, Typed, LockFits, Maybe, Preparing, Judging
<1>3. Consistent(r)'
  <2>1. OutcomeFits(r)'
    BY Tables DEF RunInv, Typed, Consistent, OutcomeFits, Unpublished, Preparing, Supervising,
       Judging, Building, Releasing, Closing, Ended
  <2>2. Quiet(r)'
    BY Tables DEF RunInv, Typed, Consistent, Quiet, Preparing, Supervising, Judging, Building,
       Releasing, Ended
  <2>3. Scored(r)'
    BY Tables DEF RunInv, Typed, Consistent, Scored, Preparing, Supervising, Judging, Building,
       Releasing, Ended, Maybe, Outputs
  <2>4. StagingFits(r)'
    BY Tables DEF RunInv, Typed, Consistent, StagingFits, Preparing, Supervising, Judging,
       Building, Releasing, Ended
  <2>5. DestinationIsOwn(r)'
    BY Tables DEF RunInv, Typed, Consistent, DestinationIsOwn, Here, OutcomeFits, Quiet,
       Unpublished, Preparing, Supervising, Judging, Building, Releasing, Closing, Ended
  <2> QED BY <2>1, <2>2, <2>3, <2>4, <2>5 DEF Consistent
<1>4. OthersStay(r)
  BY DEF RunInv, Typed, OthersStay
<1> QED BY <1>1, <1>2, <1>3, <1>4 DEF Keeps

(* A telling bundle goes no further.                                       *)
LEMMA VerifyBundleKeeps ==
    ASSUME RunInv, NEW r \in Runs, VerifyBundle(r) PROVE Keeps(r) /\ LockFits' /\ dest' = dest
<1> USE DEF VerifyBundle, Goto, Answer, Fail, Abandon, process, publication, world
<1>1. Typed'
  BY Tables, NextLabels DEF RunInv, Typed, Maybe, Outcomes
<1>2. LockFits' /\ dest' = dest
  BY Tables DEF RunInv, Typed, LockFits, Maybe, Preparing, Judging
<1>3. Consistent(r)'
  <2>1. OutcomeFits(r)'
    BY Tables DEF RunInv, Typed, Consistent, OutcomeFits, Unpublished, Preparing, Supervising,
       Judging, Building, Releasing, Closing, Ended
  <2>2. Quiet(r)'
    BY Tables DEF RunInv, Typed, Consistent, Quiet, Preparing, Supervising, Judging, Building,
       Releasing, Ended
  <2>3. Scored(r)'
    BY Tables DEF RunInv, Typed, Consistent, Scored, Preparing, Supervising, Judging, Building,
       Releasing, Ended, Maybe, Outputs
  <2>4. StagingFits(r)'
    BY Tables DEF RunInv, Typed, Consistent, StagingFits, Preparing, Supervising, Judging,
       Building, Releasing, Ended
  <2>5. DestinationIsOwn(r)'
    BY Tables DEF RunInv, Typed, Consistent, DestinationIsOwn, Here, OutcomeFits, Quiet,
       Unpublished, Preparing, Supervising, Judging, Building, Releasing, Closing, Ended
  <2> QED BY <2>1, <2>2, <2>3, <2>4, <2>5 DEF Consistent
<1>4. OthersStay(r)
  BY DEF RunInv, Typed, OthersStay
<1> QED BY <1>1, <1>2, <1>3, <1>4 DEF Keeps

(* The publication lock is taken while it is free.                         *)
LEMMA LockKeeps ==
    ASSUME RunInv, NEW r \in Runs, Lock(r) PROVE Keeps(r) /\ LockFits' /\ dest' = dest
<1> USE DEF Lock, Goto, Answer, Fail, Abandon, process, publication, world
<1>1. Typed'
  BY Tables, NextLabels DEF RunInv, Typed, Maybe, Outcomes
<1>2. LockFits' /\ dest' = dest
  BY Tables DEF RunInv, Typed, LockFits, Maybe, Preparing, Judging
<1>3. Consistent(r)'
  <2>1. OutcomeFits(r)'
    BY Tables DEF RunInv, Typed, Consistent, OutcomeFits, Unpublished, Preparing, Supervising,
       Judging, Building, Releasing, Closing, Ended
  <2>2. Quiet(r)'
    BY Tables DEF RunInv, Typed, Consistent, Quiet, Preparing, Supervising, Judging, Building,
       Releasing, Ended
  <2>3. Scored(r)'
    BY Tables DEF RunInv, Typed, Consistent, Scored, Preparing, Supervising, Judging, Building,
       Releasing, Ended, Maybe, Outputs
  <2>4. StagingFits(r)'
    BY Tables DEF RunInv, Typed, Consistent, StagingFits, Preparing, Supervising, Judging,
       Building, Releasing, Ended
  <2>5. DestinationIsOwn(r)'
    BY Tables DEF RunInv, Typed, Consistent, DestinationIsOwn, Here, OutcomeFits, Quiet,
       Unpublished, Preparing, Supervising, Judging, Building, Releasing, Closing, Ended
  <2> QED BY <2>1, <2>2, <2>3, <2>4, <2>5 DEF Consistent
<1>4. OthersStay(r)
  BY DEF RunInv, Typed, OthersStay
<1> QED BY <1>1, <1>2, <1>3, <1>4 DEF Keeps

(* Under the lock the destination is looked for a last time.               *)
LEMMA LookAgainKeeps ==
    ASSUME RunInv, NEW r \in Runs, LookAgain(r) PROVE Keeps(r) /\ LockFits' /\ dest' = dest
<1> USE DEF LookAgain, Goto, Answer, Fail, Abandon, process, publication, world
<1>1. Typed'
  BY Tables, NextLabels DEF RunInv, Typed, Maybe, Outcomes
<1>2. LockFits' /\ dest' = dest
  BY Tables DEF RunInv, Typed, LockFits, Maybe, Preparing, Judging
<1>3. Consistent(r)'
  <2>1. OutcomeFits(r)'
    BY Tables DEF RunInv, Typed, Consistent, OutcomeFits, Unpublished, Preparing, Supervising,
       Judging, Building, Releasing, Closing, Ended
  <2>2. Quiet(r)'
    BY Tables DEF RunInv, Typed, Consistent, Quiet, Preparing, Supervising, Judging, Building,
       Releasing, Ended
  <2>3. Scored(r)'
    BY Tables DEF RunInv, Typed, Consistent, Scored, Preparing, Supervising, Judging, Building,
       Releasing, Ended, Maybe, Outputs
  <2>4. StagingFits(r)'
    BY Tables DEF RunInv, Typed, Consistent, StagingFits, Preparing, Supervising, Judging,
       Building, Releasing, Ended
  <2>5. DestinationIsOwn(r)'
    BY Tables DEF RunInv, Typed, Consistent, DestinationIsOwn, Here, OutcomeFits, Quiet,
       Unpublished, Preparing, Supervising, Judging, Building, Releasing, Closing, Ended
  <2> QED BY <2>1, <2>2, <2>3, <2>4, <2>5 DEF Consistent
<1>4. OthersStay(r)
  BY DEF RunInv, Typed, OthersStay
<1> QED BY <1>1, <1>2, <1>3, <1>4 DEF Keeps

(* After the rename a failed sync does not deny the publication.           *)
LEMMA SyncParentKeeps ==
    ASSUME RunInv, NEW r \in Runs, SyncParent(r) PROVE Keeps(r) /\ LockFits' /\ dest' = dest
<1> USE DEF SyncParent, Goto, Answer, Fail, Abandon, process, publication, world
<1>1. Typed'
  BY Tables, NextLabels DEF RunInv, Typed, Maybe, Outcomes
<1>2. LockFits' /\ dest' = dest
  BY Tables DEF RunInv, Typed, LockFits, Maybe, Preparing, Judging
<1>3. Consistent(r)'
  <2>1. OutcomeFits(r)'
    BY Tables DEF RunInv, Typed, Consistent, OutcomeFits, Unpublished, Preparing, Supervising,
       Judging, Building, Releasing, Closing, Ended
  <2>2. Quiet(r)'
    BY Tables DEF RunInv, Typed, Consistent, Quiet, Preparing, Supervising, Judging, Building,
       Releasing, Ended
  <2>3. Scored(r)'
    BY Tables DEF RunInv, Typed, Consistent, Scored, Preparing, Supervising, Judging, Building,
       Releasing, Ended, Maybe, Outputs
  <2>4. StagingFits(r)'
    BY Tables DEF RunInv, Typed, Consistent, StagingFits, Preparing, Supervising, Judging,
       Building, Releasing, Ended
  <2>5. DestinationIsOwn(r)'
    BY Tables DEF RunInv, Typed, Consistent, DestinationIsOwn, Here, OutcomeFits, Quiet,
       Unpublished, Preparing, Supervising, Judging, Building, Releasing, Closing, Ended
  <2> QED BY <2>1, <2>2, <2>3, <2>4, <2>5 DEF Consistent
<1>4. OthersStay(r)
  BY DEF RunInv, Typed, OthersStay
<1> QED BY <1>1, <1>2, <1>3, <1>4 DEF Keeps

(* The finally clause removes what was not published, or remembers that
   it could not.                                                           *)
LEMMA GiveUpKeeps ==
    ASSUME RunInv, NEW r \in Runs, GiveUp(r) PROVE Keeps(r) /\ LockFits' /\ dest' = dest
<1> USE DEF GiveUp, Goto, Answer, Fail, Abandon, process, publication, world
<1>1. Typed'
  <2>1. lock' \in Maybe(Runs)
    BY DEF RunInv, Typed, Maybe
  <2>2. broken' \in [Runs -> BOOLEAN]
    BY DEF RunInv, Typed
  <2>3. staging' = [q \in Runs |-> staging'[q]]
    BY DEF RunInv, Typed
  <2>4. pc' \in [Runs -> AllLabels]
    BY NextLabels DEF RunInv, Typed
  <2> QED BY <2>1, <2>2, <2>3, <2>4 DEF RunInv, Typed
<1>2. LockFits' /\ dest' = dest
  BY Tables DEF RunInv, Typed, LockFits, Maybe, Preparing, Judging
<1>3. Consistent(r)'
  <2>1. OutcomeFits(r)'
    BY Tables DEF RunInv, Typed, Consistent, OutcomeFits, Unpublished, Preparing, Supervising,
       Judging, Building, Releasing, Closing, Ended
  <2>2. Quiet(r)'
    BY Tables DEF RunInv, Typed, Consistent, Quiet, Preparing, Supervising, Judging, Building,
       Releasing, Ended
  <2>3. Scored(r)'
    BY Tables DEF RunInv, Typed, Consistent, Scored, Preparing, Supervising, Judging, Building,
       Releasing, Ended, Maybe, Outputs
  <2>4. StagingFits(r)'
    BY Tables DEF RunInv, Typed, Consistent, StagingFits, Preparing, Supervising, Judging,
       Building, Releasing, Ended
  <2>5. DestinationIsOwn(r)'
    BY Tables DEF RunInv, Typed, Consistent, DestinationIsOwn, Here, OutcomeFits, Quiet,
       Unpublished, Preparing, Supervising, Judging, Building, Releasing, Closing, Ended
  <2> QED BY <2>1, <2>2, <2>3, <2>4, <2>5 DEF Consistent
<1>4. OthersStay(r)
  BY DEF RunInv, Typed, OthersStay
<1> QED BY <1>1, <1>2, <1>3, <1>4 DEF Keeps

(* The temporary directory goes last, and a failure to remove it is the
   answer.                                                                 *)
LEMMA RemoveSandboxKeeps ==
    ASSUME RunInv, NEW r \in Runs, RemoveSandbox(r) PROVE Keeps(r) /\ LockFits' /\ dest' = dest
<1> USE DEF RemoveSandbox, Goto, Answer, Fail, Abandon, process, publication, world
<1>1. Typed'
  <2>1. broken' \in [Runs -> BOOLEAN]
    BY DEF RunInv, Typed
  <2>2. outcome' \in [Runs -> Outcomes]
    BY DEF RunInv, Typed, Outcomes
  <2>3. pc' \in [Runs -> AllLabels]
    BY NextLabels DEF RunInv, Typed
  <2>4. out' \in [Runs -> Maybe(Outputs)]
    BY DEF RunInv, Typed, Maybe
  <2> QED BY <2>1, <2>2, <2>3, <2>4 DEF RunInv, Typed
<1>2. LockFits' /\ dest' = dest
  BY Tables DEF RunInv, Typed, LockFits, Maybe, Preparing, Judging
<1>3. Consistent(r)'
  <2>1. OutcomeFits(r)'
    BY Tables DEF RunInv, Typed, Consistent, OutcomeFits, Unpublished, Preparing, Supervising,
       Judging, Building, Releasing, Closing, Ended
  <2>2. Quiet(r)'
    BY Tables DEF RunInv, Typed, Consistent, Quiet, Preparing, Supervising, Judging, Building,
       Releasing, Ended
  <2>3. Scored(r)'
    BY Tables DEF RunInv, Typed, Consistent, Scored, Preparing, Supervising, Judging, Building,
       Releasing, Ended, Maybe, Outputs
  <2>4. StagingFits(r)'
    <3>1. StagingFits(r) /\ staging'[r] = staging[r] /\ taken'[r] = taken[r]
      BY DEF RunInv, Consistent
    <3>2. pc'[r] = "answered" /\ (broken'[r] = broken[r] \/ broken'[r])
      BY DEF RunInv, Typed
    <3> QED BY <3>1, <3>2 DEF StagingFits, Preparing, Supervising, Judging, Releasing
  <2>5. DestinationIsOwn(r)'
    BY Tables DEF RunInv, Typed, Consistent, DestinationIsOwn, Here, OutcomeFits, Quiet,
       Unpublished, Preparing, Supervising, Judging, Building, Releasing, Closing, Ended
  <2> QED BY <2>1, <2>2, <2>3, <2>4, <2>5 DEF Consistent
<1>4. OthersStay(r)
  BY DEF RunInv, Typed, OthersStay
<1> QED BY <1>1, <1>2, <1>3, <1>4 DEF Keeps

(* A disk error before publishing leaves no staging directory.             *)
LEMMA DiskErrorKeeps ==
    ASSUME RunInv, NEW r \in Runs, DiskError(r) PROVE Keeps(r) /\ LockFits' /\ dest' = dest
<1> USE DEF DiskError, Goto, Answer, Fail, Abandon, process, publication, world
<1>1. Typed'
  BY Tables, NextLabels DEF RunInv, Typed, Maybe, Outcomes
<1>2. LockFits' /\ dest' = dest
  BY Tables DEF RunInv, Typed, LockFits, Maybe, Preparing, Judging
<1>3. Consistent(r)'
  <2>1. OutcomeFits(r)'
    BY Tables DEF RunInv, Typed, Consistent, OutcomeFits, Unpublished, Preparing, Supervising,
       Judging, Building, Releasing, Closing, Ended
  <2>2. Quiet(r)'
    BY Tables DEF RunInv, Typed, Consistent, Quiet, Preparing, Supervising, Judging, Building,
       Releasing, Ended
  <2>3. Scored(r)'
    BY Tables DEF RunInv, Typed, Consistent, Scored, Preparing, Supervising, Judging, Building,
       Releasing, Ended, Maybe, Outputs
  <2>4. StagingFits(r)'
    <3>1. StagingFits(r) /\ staging'[r] = staging[r]
      BY DEF RunInv, Consistent
    <3>2. staging[r] = {} /\ pc'[r] \notin {"verify_bundle"} \cup Releasing
      BY <3>1, Tables DEF RunInv, Typed, StagingFits, Preparing, Supervising, Judging, Releasing,
         Ended
    <3> QED BY <3>1, <3>2, StagingStays
  <2>5. DestinationIsOwn(r)'
    BY Tables DEF RunInv, Typed, Consistent, DestinationIsOwn, Here, OutcomeFits, Quiet,
       Unpublished, Preparing, Supervising, Judging, Building, Releasing, Closing, Ended
  <2> QED BY <2>1, <2>2, <2>3, <2>4, <2>5 DEF Consistent
<1>4. OthersStay(r)
  BY DEF RunInv, Typed, OthersStay
<1> QED BY <1>1, <1>2, <1>3, <1>4 DEF Keeps

(* An error while publishing is answered, and nothing is published yet.    *)
LEMMA PublishingErrorKeeps ==
    ASSUME RunInv, NEW r \in Runs, PublishingError(r) PROVE Keeps(r) /\ LockFits' /\ dest' = dest
<1> USE DEF PublishingError, Goto, Answer, Fail, Abandon, process, publication, world
<1>1. Typed'
  BY Tables, NextLabels DEF RunInv, Typed, Maybe, Outcomes
<1>2. LockFits' /\ dest' = dest
  BY Tables DEF RunInv, Typed, LockFits, Maybe, Preparing, Judging
<1>3. Consistent(r)'
  <2>1. OutcomeFits(r)'
    BY Tables DEF RunInv, Typed, Consistent, OutcomeFits, Unpublished, Preparing, Supervising,
       Judging, Building, Releasing, Closing, Ended
  <2>2. Quiet(r)'
    BY Tables DEF RunInv, Typed, Consistent, Quiet, Preparing, Supervising, Judging, Building,
       Releasing, Ended
  <2>3. Scored(r)'
    BY Tables DEF RunInv, Typed, Consistent, Scored, Preparing, Supervising, Judging, Building,
       Releasing, Ended, Maybe, Outputs
  <2>4. StagingFits(r)'
    BY Tables DEF RunInv, Typed, Consistent, StagingFits, Preparing, Supervising, Judging,
       Building, Releasing, Ended
  <2>5. DestinationIsOwn(r)'
    BY Tables DEF RunInv, Typed, Consistent, DestinationIsOwn, Here, OutcomeFits, Quiet,
       Unpublished, Preparing, Supervising, Judging, Building, Releasing, Closing, Ended
  <2> QED BY <2>1, <2>2, <2>3, <2>4, <2>5 DEF Consistent
<1>4. OthersStay(r)
  BY DEF RunInv, Typed, OthersStay
<1> QED BY <1>1, <1>2, <1>3, <1>4 DEF Keeps

(* A crash takes the lock away and leaves the rest.                        *)
LEMMA CrashKeeps ==
    ASSUME RunInv, NEW r \in Runs, Crash(r) PROVE Keeps(r) /\ LockFits' /\ dest' = dest
<1> USE DEF Crash, Goto, Answer, Fail, Abandon, process, publication, world
<1>1. Typed'
  BY Tables, NextLabels DEF RunInv, Typed, Maybe, Outcomes
<1>2. LockFits' /\ dest' = dest
  BY Tables DEF RunInv, Typed, LockFits, Maybe, Preparing, Judging
<1>3. Consistent(r)'
  <2>1. OutcomeFits(r)'
    BY Tables DEF RunInv, Typed, Consistent, OutcomeFits, Unpublished, Preparing, Supervising,
       Judging, Building, Releasing, Closing, Ended
  <2>2. Quiet(r)'
    BY Tables DEF RunInv, Typed, Consistent, Quiet, Preparing, Supervising, Judging, Building,
       Releasing, Ended
  <2>3. Scored(r)'
    BY Tables DEF RunInv, Typed, Consistent, Scored, Preparing, Supervising, Judging, Building,
       Releasing, Ended, Maybe, Outputs
  <2>4. StagingFits(r)'
    BY Tables DEF RunInv, Typed, Consistent, StagingFits, Preparing, Supervising, Judging,
       Building, Releasing, Ended
  <2>5. DestinationIsOwn(r)'
    BY Tables DEF RunInv, Typed, Consistent, DestinationIsOwn, Here, OutcomeFits, Quiet,
       Unpublished, Preparing, Supervising, Judging, Building, Releasing, Closing, Ended
  <2> QED BY <2>1, <2>2, <2>3, <2>4, <2>5 DEF Consistent
<1>4. OthersStay(r)
  BY DEF RunInv, Typed, OthersStay
<1> QED BY <1>1, <1>2, <1>3, <1>4 DEF Keeps

(* A group without a leader does not grow.                                 *)
LEMMA ForkKeeps ==
    ASSUME RunInv, NEW r \in Runs, Fork(r) PROVE Keeps(r) /\ LockFits' /\ dest' = dest
<1> USE DEF Fork, Goto, Answer, Fail, Abandon, process, publication, world
<1>1. Typed'
  BY Tables, NextLabels DEF RunInv, Typed, Maybe, Outcomes
<1>2. LockFits' /\ dest' = dest
  BY Tables DEF RunInv, Typed, LockFits, Maybe, Preparing, Judging
<1>3. Consistent(r)'
  <2>1. OutcomeFits(r)'
    BY Tables DEF RunInv, Typed, Consistent, OutcomeFits, Unpublished, Preparing, Supervising,
       Judging, Building, Releasing, Closing, Ended
  <2>2. Quiet(r)'
    BY Tables DEF RunInv, Typed, Consistent, Quiet, Preparing, Supervising, Judging, Building,
       Releasing, Ended
  <2>3. Scored(r)'
    BY Tables DEF RunInv, Typed, Consistent, Scored, Preparing, Supervising, Judging, Building,
       Releasing, Ended, Maybe, Outputs
  <2>4. StagingFits(r)'
    BY Tables DEF RunInv, Typed, Consistent, StagingFits, Preparing, Supervising, Judging,
       Building, Releasing, Ended
  <2>5. DestinationIsOwn(r)'
    BY Tables DEF RunInv, Typed, Consistent, DestinationIsOwn, Here, OutcomeFits, Quiet,
       Unpublished, Preparing, Supervising, Judging, Building, Releasing, Closing, Ended
  <2> QED BY <2>1, <2>2, <2>3, <2>4, <2>5 DEF Consistent
<1>4. OthersStay(r)
  BY DEF RunInv, Typed, OthersStay
<1> QED BY <1>1, <1>2, <1>3, <1>4 DEF Keeps

(* A process that escapes makes the group no larger.                       *)
LEMMA EscapeKeeps ==
    ASSUME RunInv, NEW r \in Runs, Escape(r) PROVE Keeps(r) /\ LockFits' /\ dest' = dest
<1> USE DEF Escape, Goto, Answer, Fail, Abandon, process, publication, world
<1>1. Typed'
  BY Tables, NextLabels DEF RunInv, Typed, Maybe, Outcomes
<1>2. LockFits' /\ dest' = dest
  BY Tables DEF RunInv, Typed, LockFits, Maybe, Preparing, Judging
<1>3. Consistent(r)'
  <2>1. OutcomeFits(r)'
    BY Tables DEF RunInv, Typed, Consistent, OutcomeFits, Unpublished, Preparing, Supervising,
       Judging, Building, Releasing, Closing, Ended
  <2>2. Quiet(r)'
    BY Tables DEF RunInv, Typed, Consistent, Quiet, Preparing, Supervising, Judging, Building,
       Releasing, Ended
  <2>3. Scored(r)'
    BY Tables DEF RunInv, Typed, Consistent, Scored, Preparing, Supervising, Judging, Building,
       Releasing, Ended, Maybe, Outputs
  <2>4. StagingFits(r)'
    BY Tables DEF RunInv, Typed, Consistent, StagingFits, Preparing, Supervising, Judging,
       Building, Releasing, Ended
  <2>5. DestinationIsOwn(r)'
    BY Tables DEF RunInv, Typed, Consistent, DestinationIsOwn, Here, OutcomeFits, Quiet,
       Unpublished, Preparing, Supervising, Judging, Building, Releasing, Closing, Ended
  <2> QED BY <2>1, <2>2, <2>3, <2>4, <2>5 DEF Consistent
<1>4. OthersStay(r)
  BY DEF RunInv, Typed, OthersStay
<1> QED BY <1>1, <1>2, <1>3, <1>4 DEF Keeps

(* A predictor writes its output at any time, and nothing of the run's own
   is touched.                                                             *)
LEMMA WriteKeeps ==
    ASSUME RunInv, NEW r \in Runs, NEW o \in Outputs, Write(r, o)
    PROVE  Keeps(r) /\ LockFits' /\ dest' = dest
<1> USE DEF Write, process, publication, world
<1>1. Typed'
  <2>1. out' \in [Runs -> Maybe(Outputs)]
    BY DEF RunInv, Typed, Maybe
  <2> QED BY <2>1 DEF RunInv, Typed
<1>2. LockFits' /\ dest' = dest
  BY DEF RunInv, LockFits
<1>3. Consistent(r) /\ (Here(r)' <=> Here(r))
  BY DEF RunInv, Here
<1>4. Consistent(r)'
  BY <1>3, Frame
<1> QED BY <1>1, <1>2, <1>4 DEF Keeps, OthersStay

(* The leader's return code is kept, and only a group with a leader ends.  *)
LEMMA ExitKeeps ==
    ASSUME RunInv, NEW r \in Runs, NEW code \in {0, 1}, Exit(r, code)
    PROVE  Keeps(r) /\ LockFits' /\ dest' = dest
<1> USE DEF Exit, process, publication, world
<1>1. Typed'
  BY DEF RunInv, Typed
<1>2. LockFits' /\ dest' = dest
  BY DEF RunInv, LockFits
<1>3. Consistent(r)'
  <2>1. OutcomeFits(r)' /\ Scored(r)'
    BY DEF RunInv, Consistent, OutcomeFits, Scored
  <2>2. Quiet(r)'
    BY DEF RunInv, Typed, Consistent, Quiet
  <2>3. StagingFits(r)'
    BY DEF RunInv, Consistent, StagingFits
  <2>4. DestinationIsOwn(r)'
    BY DEF RunInv, Typed, Consistent, DestinationIsOwn, Here
  <2> QED BY <2>1, <2>2, <2>3, <2>4 DEF Consistent
<1>4. OthersStay(r)
  BY DEF RunInv, Typed, OthersStay
<1> QED BY <1>1, <1>2, <1>3, <1>4 DEF Keeps

(* A step that leaves the destination alone leaves the other runs alone.   *)
LEMMA KeepsInv ==
    ASSUME RunInv, NEW r \in Runs, Keeps(r), LockFits', dest' = dest
    PROVE  RunInv'
<1>1. DestinationFits' /\ \A q \in Runs : Here(q)' <=> Here(q)
  BY DEF RunInv, DestinationFits, Here
<1>2. ASSUME NEW q \in Runs PROVE Consistent(q)'
  <2>1. CASE q = r
    BY <2>1 DEF Keeps
  <2>2. CASE q # r
    <3>1. Consistent(q)
      BY DEF RunInv
    <3> QED BY <1>1, <2>2, <3>1, Frame DEF Keeps, OthersStay
  <2> QED BY <2>1, <2>2
<1> QED BY <1>1, <1>2 DEF RunInv, Keeps

(* The rename is the one step by which a run writes the destination: it is
   empty, and what arrives is the verified bundle.                         *)
LEMMA RenameInv ==
    ASSUME RunInv, NEW r \in Runs, Rename(r)
    PROVE  RunInv' /\ (dest # {} => dest' = dest)
<1>1. CASE dest # {}
  <2>1. Abandon(r, "refused") /\ pc[r] = "rename"
    BY <1>1 DEF Rename
  <2>2. Keeps(r) /\ LockFits' /\ dest' = dest
    <3>1. Typed'
      BY <2>1, NextLabels DEF RunInv, Typed, Abandon, Goto, process, publication, world, Outcomes
    <3>2. LockFits' /\ dest' = dest
      BY <2>1 DEF RunInv, Typed, LockFits, Abandon, Goto, publication
    <3>3. /\ pc'[r] = "give_up" /\ outcome'[r] = "refused"
          /\ group'[r] = group[r] /\ status'[r] = status[r] /\ taken'[r] = taken[r]
          /\ staging'[r] = staging[r] /\ broken'[r] = broken[r] /\ (Here(r)' <=> Here(r))
      BY <2>1 DEF RunInv, Typed, Abandon, Goto, process, publication, world, Here
    <3>4. Consistent(r)'
      BY <2>1, <3>3 DEF RunInv, Consistent, OutcomeFits, Quiet, Scored, StagingFits,
         DestinationIsOwn,
         Unpublished, Preparing, Supervising, Judging, Building, Releasing, Closing
    <3>5. OthersStay(r)
      BY <2>1 DEF OthersStay, RunInv, Typed, Abandon, Goto, process, publication, world
    <3> QED BY <3>1, <3>2, <3>4, <3>5 DEF Keeps
  <2> QED BY <2>2, KeepsInv
<1>2. CASE dest = {}
  <2>1. /\ pc[r] = "rename" /\ dest' = staging[r]
        /\ staging' = [staging EXCEPT ![r] = {}] /\ pc' = [pc EXCEPT ![r] = "sync_parent"]
        /\ UNCHANGED <<world, used, process, taken, lock, outcome, broken>>
    BY <1>2 DEF Rename, Goto
  <2>2. /\ taken[r] = {"good"} /\ staging[r] = {Bundle(r)}
        /\ group[r] = {} /\ status[r] = {0} /\ outcome[r] \in {"none", "timeout", "cleanup_failed"}
    BY <2>1 DEF RunInv, Consistent, Scored, StagingFits, Quiet, OutcomeFits, Releasing, Closing,
       Bundle
  <2>3. Here(r)' /\ DestinationFits'
    BY <2>1, <2>2 DEF Here, DestinationFits, Bundle
  <2>4. Typed'
    BY <2>1, NextLabels DEF RunInv, Typed, process, world
  <2>5. LockFits'
    BY <2>1 DEF RunInv, Typed, LockFits
  <2>6. Consistent(r)'
    <3>1. /\ pc'[r] = "sync_parent" /\ group'[r] = {} /\ status'[r] = {0} /\ taken'[r] = {"good"}
          /\ staging'[r] = {} /\ outcome'[r] \in {"none", "timeout", "cleanup_failed"}
      BY <2>1, <2>2 DEF RunInv, Typed, process
    <3> QED BY <3>1, <2>3 DEF Consistent, OutcomeFits, Quiet, Scored, StagingFits, DestinationIsOwn,
           Unpublished, Preparing, Supervising, Judging, Building, Releasing, Closing
  <2>7. ASSUME NEW q \in Runs, q # r PROVE Consistent(q)'
    <3>1. ~Here(q)
      BY <1>2 DEF Here
    <3>2. ~Here(q)'
      <4>1. Bundle(q).run = {q} /\ Bundle(r).run = {r} /\ Bundle(r)' = Bundle(r) /\ Bundle(q)' = Bundle(q)
        BY DEF Bundle, Directory
      <4> QED BY <2>3, <2>7, <4>1 DEF Here
    <3>3. Consistent(q)
      BY DEF RunInv
    <3>4. /\ pc'[q] = pc[q] /\ group'[q] = group[q] /\ status'[q] = status[q]
          /\ taken'[q] = taken[q] /\ staging'[q] = staging[q]
          /\ outcome'[q] = outcome[q] /\ broken'[q] = broken[q]
      BY <2>1, <2>7 DEF RunInv, Typed, process
    <3> QED BY <3>1, <3>2, <3>3, <3>4, Frame
  <2> QED BY <1>2, <2>3, <2>4, <2>5, <2>6, <2>7 DEF RunInv
<1> QED BY <1>1, <1>2

(* Others occupy an empty destination, and then it is nobody's evidence.   *)
LEMMA OccupyInv ==
    ASSUME RunInv, Occupy
    PROVE  RunInv' /\ (dest # {} => dest' = dest)
<1> USE DEF Occupy, process, world
<1>1. Typed' /\ DestinationFits' /\ LockFits'
  BY DEF RunInv, Typed, DestinationFits, LockFits, Foreign
<1>2. ASSUME NEW q \in Runs PROVE Consistent(q)'
  <2>1. ~Here(q)
    BY DEF Here
  <2>2. ~Here(q)'
    <3>1. Bundle(q).run = {q} /\ Foreign.run = {}
      BY DEF Bundle, Foreign, Directory
    <3> QED BY <3>1 DEF Here
  <2>3. Consistent(q)
    BY DEF RunInv
  <2> QED BY <2>1, <2>2, <2>3, Frame
<1> QED BY <1>1, <1>2 DEF RunInv

(* Edits touch no run.                                                     *)
LEMMA EditInv ==
    ASSUME RunInv, NEW f \in Edited, Edit(f)
    PROVE  RunInv' /\ dest' = dest
<1> USE DEF Edit, process, publication
<1>1. Typed' /\ DestinationFits' /\ LockFits'
  BY EditedAssumption, MaxEditsAssumption DEF RunInv, Typed, DestinationFits, LockFits, Here
<1>2. ASSUME NEW q \in Runs PROVE Consistent(q)'
  <2>1. Consistent(q) /\ (Here(q)' <=> Here(q))
    BY DEF RunInv, Here
  <2> QED BY <2>1, Frame
<1> QED BY <1>1, <1>2 DEF RunInv

(* Every step of a run, of its predictor and of its faults but the rename.  *)
LEMMA ActKeeps ==
    ASSUME RunInv, NEW r \in Runs, Step(r) \/ Predictor(r) \/ Fault(r), ~Rename(r)
    PROVE  Keeps(r) /\ LockFits' /\ dest' = dest
<1>1. CASE Step(r)
  BY <1>1, ImportKeeps, VerifyBeforeKeeps, FindDestinationKeeps, LoadCasesKeeps,
     CopySupervisorKeeps, CopyAssetsKeeps, CopyKeeps, StartKeeps,
     WaitReturnsKeeps, TimeIsUpKeeps, TerminateKeeps, KillKeeps, TakeLogsKeeps, VerifyAgainKeeps,
     TakePredictionsKeeps, ScoreKeeps, FindDestinationAgainKeeps, MakeStagingKeeps,
     WriteMembersKeeps, VerifyBundleKeeps, LockKeeps, LookAgainKeeps, SyncParentKeeps,
     GiveUpKeeps, RemoveSandboxKeeps
     DEF Step
<1>2. CASE Predictor(r)
  BY <1>2, WriteKeeps, ForkKeeps, EscapeKeeps, ExitKeeps DEF Predictor
<1>3. CASE Fault(r)
  BY <1>3, DiskErrorKeeps, PublishingErrorKeeps, CrashKeeps DEF Fault
<1> QED BY <1>1, <1>2, <1>3

(* Every step keeps the invariant, and what is at the destination.         *)
LEMMA NextInv ==
    ASSUME RunInv, [Next]_vars
    PROVE  RunInv' /\ (dest # {} => dest' = dest)
<1>1. ASSUME NEW f \in Edited, Edit(f) PROVE RunInv' /\ (dest # {} => dest' = dest)
  BY <1>1, EditInv
<1>2. CASE Occupy
  BY <1>2, OccupyInv
<1>3. ASSUME NEW r \in Runs, Step(r) \/ Predictor(r) \/ Fault(r)
      PROVE  RunInv' /\ (dest # {} => dest' = dest)
  <2>1. CASE Rename(r)
    BY <2>1, RenameInv
  <2>2. CASE ~Rename(r)
    BY <1>3, <2>2, ActKeeps, KeepsInv
  <2> QED BY <2>1, <2>2
<1>4. CASE UNCHANGED vars
  <2>1. Typed' /\ DestinationFits' /\ LockFits' /\ dest' = dest
    BY <1>4 DEF RunInv, Typed, DestinationFits, LockFits, Here, vars, world, process, publication
  <2>2. ASSUME NEW q \in Runs PROVE Consistent(q)'
    <3>1. Consistent(q) /\ (Here(q)' <=> Here(q))
      BY <1>4 DEF RunInv, Here, vars, publication
    <3> QED BY <1>4, <3>1, Frame DEF vars, process, publication
  <2> QED BY <2>1, <2>2 DEF RunInv
<1> QED BY <1>1, <1>2, <1>3, <1>4 DEF Next, Done

(* The strengthened invariant: for each stretch of a run's program, what it
   holds, what lies in its staging directory and whose the destination is. *)
THEOREM RunInvariant == Spec => []RunInv
<1>1. RunInv /\ [Next]_vars => RunInv'
  BY NextInv
<1> QED BY InitInv, <1>1, PTL DEF Spec

(* Whatever is at the destination stays there, for any number of runs that
   were given it and whatever appears between a run's last look and its
   rename (_rename_directory_noreplace).                                   *)
THEOREM DestinationKept == Spec => DestinationIsWrittenOnce
<1>1. RunInv /\ [Next]_vars => [dest # {} => dest' = dest]_dest
  BY NextInv
<1> QED BY RunInvariant, <1>1, PTL DEF Spec, DestinationIsWrittenOnce

-----------------------------------------------------------------------------
\* The files a run reads without a digest of the plan, and those of them it
\* has looked at again when it is at a label.
Unverified == {"evaluator", "supervisor", "manifest", "assets"}

Settled(label) ==
    IF label \in Building \cup Releasing \cup {"sync_parent"} THEN Unverified
    ELSE IF label \in {"take_predictions", "score"} THEN Unverified \ {"assets"}
    ELSE IF label \in {"recheck_statement", "recheck_model", "recheck_entrypoint",
                       "recheck_training", "recheck_evaluator"} THEN {"manifest"}
    ELSE {}

\* What a run used in another version is still changed or was put back, and
\* put back once the run has looked again.
InputsFit(r) ==
    /\ used[r] \subseteq Unverified
    /\ used[r] \subseteq changed \cup restored
    /\ "assets" \in used[r] => "manifest" \in used[r]
    /\ used[r] \cap Settled(pc[r]) \subseteq restored
    /\ Here(r) => used[r] \subseteq restored

(* A run that reads nothing and gets no further keeps its inputs.          *)
LEMMA InputsStay ==
    ASSUME NEW q, InputsFit(q), used'[q] = used[q], changed' = changed, restored' = restored,
           Settled(pc'[q]) \subseteq Settled(pc[q]), Here(q)' => Here(q)
    PROVE  InputsFit(q)'
  BY DEF InputsFit

(* Where nothing was looked at again yet, or any more.                     *)
LEMMA Unsettled ==
    /\ \A l \in Preparing \cup Supervising \cup Closing \cup {"recheck_plan", "recheck_manifest"} :
           Settled(l) = {}
    /\ \A l \in Building \cup Releasing \cup {"sync_parent"} : Settled(l) = Unverified
  BY DEF Settled, Preparing, Supervising, Closing, Building, Releasing

(* What a run reads before the process is either checked or one of the four. *)
LEMMA ReadingInputs ==
    ASSUME RunInv, NEW r \in Runs, InputsFit(r), dest' = dest,
           \/ Import(r) \/ VerifyBefore(r) \/ LoadCases(r)
           \/ CopySupervisor(r) \/ CopyAssets(r) \/ Copy(r)
    PROVE  InputsFit(r)'
<1>1. /\ changed' = changed /\ restored' = restored
      /\ Here(r)' <=> Here(r)
  BY DEF Import, VerifyBefore, LoadCases, CopySupervisor, CopyAssets, Copy, world, Here
<1>2. ~Here(r)
  BY Tables DEF RunInv, Consistent, DestinationIsOwn, Unpublished, Preparing, Import,
     VerifyBefore, LoadCases, CopySupervisor, CopyAssets, Copy
<1>3. pc'[r] \in Preparing \cup Closing
  BY Tables DEF RunInv, Typed, Import, VerifyBefore, LoadCases, CopySupervisor, CopyAssets, Copy,
     Goto, Answer, Fail, Preparing, Closing
<1>4. used'[r] \cap Settled(pc'[r]) \subseteq restored'
  BY <1>3, Unsettled
<1>5. PICK files \in SUBSET Files :
          /\ used'[r] = used[r] \cup (files \cap changed)
          /\ files \cap changed \subseteq Unverified
          /\ "assets" \in files \cap changed => "manifest" \in used'[r]
  <2>1. CASE Import(r)
    <3>1. used'[r] = used[r] \cup ({"evaluator"} \cap changed)
      BY <2>1 DEF Import, Uses, RunInv, Typed
    <3>2. {"evaluator"} \in SUBSET Files /\ {"evaluator"} \subseteq Unverified
      BY DEF Files, Unverified
    <3>3. "assets" \notin {"evaluator"}
      OBVIOUS
    <3> QED BY <3>1, <3>2, <3>3
  <2>2. CASE VerifyBefore(r)
    <3>1. used'[r] = used[r] \cup ({} \cap changed)
      BY <2>2 DEF VerifyBefore, Uses, RunInv, Typed
    <3> QED BY <3>1 DEF Files, Unverified
  <2>3. CASE LoadCases(r)
    <3>1. CASE UNCHANGED used
      <4>1. used'[r] = used[r] \cup ({} \cap changed) /\ {} \in SUBSET Files
        BY <3>1
      <4> QED BY <4>1
    <3>2. CASE Uses(r, {"manifest", "assets"}) /\ ("assets" \in changed => "manifest" \in changed)
      <4>1. used'[r] = used[r] \cup ({"manifest", "assets"} \cap changed)
        BY <3>2 DEF Uses, RunInv, Typed
      <4> QED BY <3>2, <4>1 DEF Files, Unverified
    <3> QED BY <2>3, <3>1, <3>2 DEF LoadCases
  <2>4. CASE CopySupervisor(r)
    <3>1. used'[r] = used[r] \cup ({"supervisor"} \cap changed)
      BY <2>4 DEF CopySupervisor, Uses, RunInv, Typed
    <3>2. {"supervisor"} \in SUBSET Files /\ {"supervisor"} \subseteq Unverified
      BY DEF Files, Unverified
    <3>3. "assets" \notin {"supervisor"}
      OBVIOUS
    <3> QED BY <3>1, <3>2, <3>3
  <2>5. CASE CopyAssets(r)
    <3>1. CASE UNCHANGED used
      <4>1. used'[r] = used[r] \cup ({} \cap changed) /\ {} \in SUBSET Files
        BY <3>1
      <4> QED BY <4>1
    <3>2. CASE Uses(r, {"assets"}) /\ ("assets" \in changed => "manifest" \in used[r])
      <4>1. used'[r] = used[r] \cup ({"assets"} \cap changed)
        BY <3>2 DEF Uses, RunInv, Typed
      <4> QED BY <3>2, <4>1 DEF Files, Unverified
    <3> QED BY <2>5, <3>1, <3>2 DEF CopyAssets
  <2>6. CASE Copy(r)
    <3>1. used'[r] = used[r] \cup ({} \cap changed)
      BY <2>6 DEF Copy, Uses, RunInv, Typed
    <3> QED BY <3>1 DEF Files, Unverified
  <2> QED BY <2>1, <2>2, <2>3, <2>4, <2>5, <2>6
<1> QED BY <1>1, <1>2, <1>4, <1>5 DEF InputsFit

(* Looking at a file again settles it.                                     *)
LEMMA LookingAgainInputs ==
    ASSUME RunInv, NEW r \in Runs, InputsFit(r), VerifyAgain(r), dest' = dest
    PROVE  InputsFit(r)'
<1>1. /\ changed' = changed /\ restored' = restored /\ used' = used
      /\ Here(r)' <=> Here(r)
  BY DEF VerifyAgain, world, Here
<1>2. CASE pc'[r] = "remove_sandbox"
  <2>1. Settled(pc'[r]) = {}
    BY <1>2, Unsettled DEF Closing
  <2> QED BY <1>1, <2>1, InputsStay
<1>3. CASE pc'[r] # "remove_sandbox"
  <2>1. /\ pc[r] \in DOMAIN Again /\ pc'[r] = Again[pc[r]][2]
        /\ Again[pc[r]][1] \cap changed = {}
    BY <1>3 DEF VerifyAgain, Fail, Goto, RunInv, Typed
  <2>2. used[r] \cap Again[pc[r]][1] \subseteq restored
    BY <2>1 DEF InputsFit
  <2>3. Settled(pc'[r]) \subseteq Settled(pc[r]) \cup Again[pc[r]][1]
    BY <2>1 DEF Again, Settled, Building, Releasing, Unverified
  <2> QED BY <1>1, <2>2, <2>3 DEF InputsFit
<1> QED BY <1>2, <1>3

(* So does scoring, which leaves nothing unsettled.                        *)
LEMMA ScoringInputs ==
    ASSUME RunInv, NEW r \in Runs, InputsFit(r), Score(r), dest' = dest
    PROVE  InputsFit(r)'
<1>1. /\ changed' = changed /\ restored' = restored
      /\ Here(r)' <=> Here(r)
  BY DEF Score, world, Here
<1>2. used'[r] = used[r] /\ pc[r] = "score"
  <2>1. pc[r] = "score" /\ used \in [Runs -> SUBSET Files]
    BY DEF Score, RunInv, Typed
  <2>2. CASE UNCHANGED used
    BY <2>1, <2>2
  <2>3. CASE {"manifest", "statement", "assets"} \cap changed = {}
             /\ Uses(r, {"manifest", "statement", "assets"})
    BY <2>1, <2>3 DEF Uses
  <2>4. UNCHANGED used \/ ({"manifest", "statement", "assets"} \cap changed = {}
                            /\ Uses(r, {"manifest", "statement", "assets"}))
    BY DEF Score
  <2> QED BY <2>1, <2>2, <2>3, <2>4
<1>3. CASE pc'[r] = "remove_sandbox"
  <2>1. Settled(pc'[r]) = {}
    BY <1>3, Unsettled DEF Closing
  <2> QED BY <1>1, <1>2, <2>1, InputsStay
<1>4. CASE pc'[r] # "remove_sandbox"
  <2>1. {"manifest", "statement", "assets"} \cap changed = {}
    BY <1>4 DEF Score, Fail, Goto, RunInv, Typed
  <2>2. Settled(pc[r]) = Unverified \ {"assets"}
    BY <1>2 DEF Settled, Building, Releasing
  <2>3. used[r] \subseteq restored
    BY <2>1, <2>2 DEF InputsFit
  <2> QED BY <1>1, <1>2, <2>3 DEF InputsFit
<1> QED BY <1>3, <1>4

(* Every other step of a run gets it no further towards an unsettled file.  *)
LEMMA OtherInputs ==
    ASSUME RunInv, NEW r \in Runs, InputsFit(r),
           \/ FindDestination(r) \/ Start(r) \/ WaitReturns(r) \/ TimeIsUp(r) \/ Terminate(r)
           \/ Kill(r) \/ TakeLogs(r) \/ TakePredictions(r) \/ FindDestinationAgain(r)
           \/ MakeStaging(r) \/ WriteMembers(r) \/ VerifyBundle(r) \/ Lock(r) \/ LookAgain(r)
           \/ Rename(r) \/ SyncParent(r) \/ GiveUp(r) \/ RemoveSandbox(r) \/ Predictor(r)
           \/ Fault(r),
           Here(r)' => Here(r) \/ pc[r] = "rename"
    PROVE  InputsFit(r)'
<1>1. changed' = changed /\ restored' = restored /\ used' = used
  BY DEF FindDestination, Start, WaitReturns, TimeIsUp, Terminate, Kill, TakeLogs,
     TakePredictions, FindDestinationAgain, MakeStaging, WriteMembers, VerifyBundle, Lock,
     LookAgain, Rename, SyncParent, GiveUp, RemoveSandbox, Predictor, Write, Fork, Escape, Exit,
     Fault, DiskError, PublishingError, Crash, Abandon, world
<1>2. \/ pc'[r] \in Preparing \cup Supervising \cup Closing \cup {"recheck_plan"}
      \/ pc[r] \in Building \cup Releasing \cup {"sync_parent"}
      \/ pc[r] = "take_predictions" /\ pc'[r] = "score"
      \/ pc'[r] = pc[r]
  <2>1. CASE \/ FindDestination(r) \/ Start(r) \/ WaitReturns(r) \/ TimeIsUp(r) \/ Terminate(r)
             \/ Kill(r) \/ TakeLogs(r) \/ TakePredictions(r)
    BY <2>1 DEF FindDestination, Start, WaitReturns, TimeIsUp, Terminate, Kill, TakeLogs,
       TakePredictions, Goto, Answer, Fail, RunInv, Typed, Preparing, Supervising, Closing
  <2>2. CASE \/ FindDestinationAgain(r) \/ MakeStaging(r) \/ WriteMembers(r) \/ VerifyBundle(r)
             \/ Lock(r) \/ LookAgain(r) \/ Rename(r) \/ SyncParent(r)
    BY <2>2 DEF FindDestinationAgain, MakeStaging, WriteMembers, VerifyBundle, Lock, LookAgain,
       Rename, SyncParent, Building, Releasing
  <2>3. CASE GiveUp(r) \/ RemoveSandbox(r)
    BY <2>3 DEF GiveUp, RemoveSandbox, Goto, Answer, RunInv, Typed, Closing
  <2>4. CASE Predictor(r)
    BY <2>4 DEF Predictor, Write, Fork, Escape, Exit
  <2>5. CASE Fault(r)
    BY <2>5 DEF Fault, DiskError, PublishingError, Crash, Goto, Answer, Fail, Abandon, RunInv,
       Typed, Closing
  <2> QED BY <2>1, <2>2, <2>3, <2>4, <2>5
<1>3. Settled(pc'[r]) \subseteq Settled(pc[r])
  <2>1. CASE pc'[r] \in Preparing \cup Supervising \cup Closing \cup {"recheck_plan"}
    BY <2>1, Unsettled
  <2>2. CASE pc[r] \in Building \cup Releasing \cup {"sync_parent"}
    <3>1. \A l : Settled(l) \subseteq Unverified
      BY DEF Settled, Unverified
    <3> QED BY <2>2, <3>1, Unsettled
  <2>3. CASE pc[r] = "take_predictions" /\ pc'[r] = "score"
    BY <2>3 DEF Settled, Building, Releasing
  <2> QED BY <1>2, <2>1, <2>2, <2>3
<1>4. CASE pc[r] = "rename"
  <2>1. used[r] \subseteq restored
    BY <1>4, Unsettled DEF InputsFit, Releasing
  <2> QED BY <1>1, <1>3, <2>1 DEF InputsFit
<1>5. CASE pc[r] # "rename"
  BY <1>1, <1>3, <1>5, InputsStay
<1> QED BY <1>4, <1>5

(* A step of one run leaves the other runs' inputs alone.                  *)
LEMMA OthersInputs ==
    ASSUME RunInv, NEW r \in Runs, Step(r) \/ Predictor(r) \/ Fault(r),
           NEW q \in Runs, q # r, InputsFit(q)
    PROVE  InputsFit(q)'
<1>1. used'[q] = used[q] /\ changed' = changed /\ restored' = restored
  BY DEF RunInv, Typed, Step, Predictor, Fault, Import, VerifyBefore, LoadCases, CopySupervisor,
     CopyAssets, Copy, Uses, FindDestination, Start, WaitReturns, TimeIsUp, Terminate, Kill,
     TakeLogs, VerifyAgain, TakePredictions, Score, FindDestinationAgain, MakeStaging,
     WriteMembers, VerifyBundle, Lock, LookAgain, Rename, SyncParent, GiveUp, RemoveSandbox,
     Write, Fork, Escape, Exit, DiskError, PublishingError, Crash, Abandon, world
<1>2. pc'[q] = pc[q] /\ (Here(q)' => Here(q))
  <2>1. CASE Rename(r) /\ dest = {}
    <3>1. staging[r] = {Bundle(r)}
      BY <2>1 DEF Rename, RunInv, Consistent, Scored, StagingFits, Releasing, Bundle
    <3>2. dest' = {Bundle(r)} /\ pc'[q] = pc[q]
      BY <2>1, <3>1 DEF Rename, Goto, RunInv, Typed
    <3>3. Bundle(q).run = {q} /\ Bundle(r).run = {r}
      BY DEF Bundle, Directory
    <3> QED BY <3>2, <3>3 DEF Here, Bundle
  <2>2. CASE Rename(r) /\ dest # {}
    BY <2>2 DEF Rename, Abandon, Goto, publication, Here, RunInv, Typed
  <2>3. CASE ~Rename(r)
    <3>1. Keeps(r) /\ dest' = dest
      BY <2>3, ActKeeps
    <3> QED BY <3>1 DEF Keeps, OthersStay, Here
  <2> QED BY <2>1, <2>2, <2>3
<1> QED BY <1>1, <1>2, InputsStay

(* Every step keeps the inputs of every run.                               *)
LEMMA NextInputs ==
    ASSUME RunInv, [Next]_vars, \A r \in Runs : InputsFit(r)
    PROVE  \A r \in Runs : InputsFit(r)'
<1> SUFFICES ASSUME NEW q \in Runs PROVE InputsFit(q)'
  OBVIOUS
<1>1. InputsFit(q)
  OBVIOUS
<1>2. ASSUME NEW f \in Edited, Edit(f) PROVE InputsFit(q)'
  <2>1. /\ changed \subseteq changed' \cup restored' /\ restored \subseteq restored'
        /\ used' = used /\ pc' = pc /\ dest' = dest
    BY <1>2 DEF Edit, publication
  <2> QED BY <1>1, <2>1 DEF InputsFit, Here
<1>3. CASE Occupy
  <2>1. ~Here(q)'
    <3>1. Bundle(q).run = {q} /\ Foreign.run = {} /\ dest' = {Foreign}
      BY <1>3 DEF Bundle, Foreign, Directory, Occupy
    <3> QED BY <3>1 DEF Here, Bundle
  <2> QED BY <1>1, <1>3, <2>1, InputsStay DEF Occupy, world
<1>4. ASSUME NEW r \in Runs, Step(r) \/ Predictor(r) \/ Fault(r) PROVE InputsFit(q)'
  <2>1. CASE q # r
    BY <1>1, <1>4, <2>1, OthersInputs
  <2>2. CASE q = r
    <3>1. CASE Rename(r)
      BY <1>1, <2>2, <3>1, OtherInputs DEF Rename
    <3>2. CASE ~Rename(r)
      <4>1. dest' = dest
        BY <1>4, <3>2, ActKeeps
      <4>2. Here(r)' => Here(r) \/ pc[r] = "rename"
        BY <4>1 DEF Here
      <4> QED BY <1>1, <1>4, <2>2, <4>1, <4>2, ReadingInputs, LookingAgainInputs, ScoringInputs,
                 OtherInputs DEF Step
    <3> QED BY <3>1, <3>2
  <2> QED BY <2>1, <2>2
<1>5. CASE UNCHANGED vars
  BY <1>1, <1>5 DEF InputsFit, Here, vars
<1> QED BY <1>2, <1>3, <1>4, <1>5 DEF Next, Done

(* What a run used is what the plan declares, or was put back.             *)
LEMMA InputsInvariant == Spec => [](\A r \in Runs : InputsFit(r))
<1>1. Init => \A r \in Runs : InputsFit(r)
  BY DEF Init, InputsFit
<1>2. RunInv /\ (\A r \in Runs : InputsFit(r)) /\ [Next]_vars => (\A r \in Runs : InputsFit(r))'
  BY NextInputs
<1> QED BY RunInvariant, <1>1, <1>2, PTL DEF Spec

(* The invariant is stronger than the type invariant.                      *)
LEMMA InvIsTyped == RunInv => TypeOK
<1> SUFFICES ASSUME RunInv PROVE TypeOK
  OBVIOUS
<1>1. \A S : \A x \in Maybe(S) : x \subseteq S /\ Cardinality(x) <= 1
  BY FS_EmptySet, FS_Singleton DEF Maybe
<1>2. \A r \in Runs : staging[r] \subseteq BundlesOf(r) \cup {Directory({r}, {})}
  <2> TAKE r \in Runs
  <2>1. staging[r] \subseteq {Directory({r}, {}), Directory({r}, taken[r])} /\ taken[r] \in Maybe(Outputs)
    BY DEF RunInv, Typed, Consistent, StagingFits
  <2> QED BY <2>1 DEF Maybe, BundlesOf
<1>3. dest \subseteq (UNION {BundlesOf(r) : r \in Runs}) \cup {Foreign}
  <2>1. \A r \in Runs : Bundle(r) \in BundlesOf(r)
    BY DEF Bundle, BundlesOf, Outputs
  <2>2. \A r \in Runs : Bundle(r) \in UNION {BundlesOf(q) : q \in Runs}
    BY <2>1, Zenon
  <2>3. \A d \in dest : d = Foreign \/ \E r \in Runs : d = Bundle(r)
    BY DEF RunInv, DestinationFits, Here
  <2>4. \A d \in dest : d \in {Foreign} \/ d \in UNION {BundlesOf(q) : q \in Runs}
    BY <2>2, <2>3, Zenon
  <2> QED BY <2>4, Zenon
<1>4. Cardinality(dest) <= 1
  <2>1. dest = {} => Cardinality(dest) = 0
    BY FS_EmptySet
  <2>2. \A d : dest = {d} => Cardinality(dest) = 1
    BY FS_Singleton
  <2> QED BY <2>1, <2>2 DEF RunInv, DestinationFits, Here
<1>5. used \in [Runs -> SUBSET Files]
  BY DEF RunInv, Typed
<1>6. lock \in SUBSET Runs /\ Cardinality(lock) <= 1
  BY <1>1 DEF RunInv, Typed
<1>7. \A r \in Runs : /\ out[r] \in SUBSET Outputs /\ Cardinality(out[r]) <= 1
                     /\ taken[r] \in SUBSET Outputs /\ Cardinality(taken[r]) <= 1
  BY <1>1 DEF RunInv, Typed
<1>8. pc \in [Runs -> Labels]
  BY LabelsAgree DEF RunInv, Typed
<1> QED BY <1>2, <1>3, <1>4, <1>5, <1>6, <1>7, <1>8 DEF RunInv, Typed, LockFits, TypeOK

(* Published evidence is about the declared files, but for one of four that
   was put back in time, and holds what was scored after the predictor's
   group was gone, whatever was edited, whichever processes escaped and
   whichever runs competed.                                                *)
THEOREM PublishedEvidence == Spec => []PublishedEvidenceIsTrue
<1>1. RunInv /\ (\A r \in Runs : InputsFit(r)) => PublishedEvidenceIsTrue
  <2> SUFFICES ASSUME RunInv, \A r \in Runs : InputsFit(r) PROVE PublishedEvidenceIsTrue
    OBVIOUS
  <2>1. PublishedIsWhatWasScored
    <3> SUFFICES ASSUME NEW d \in dest, NEW r \in d.run
                 PROVE  d.predictions = taken[r] /\ taken[r] = {"good"} /\ status[r] = {0}
      BY DEF PublishedIsWhatWasScored
    <3>1. dest # {Foreign}
      BY DEF Foreign, Directory
    <3>2. PICK q \in Runs : Here(q)
      BY <3>1 DEF RunInv, DestinationFits
    <3>3. d.run = {q} /\ d.predictions = {"good"}
      BY <3>2 DEF Here, Bundle, Directory
    <3>4. status[q] = {0} /\ taken[q] = {"good"}
      BY <3>2 DEF RunInv, Consistent, DestinationIsOwn
    <3> QED BY <3>3, <3>4
  <2>2. PublishedUsedWhatWasDeclared
    BY PublishedIsHere DEF RunInv, InputsFit, Unverified, PublishedUsedWhatWasDeclared
  <2>3. KilledGroupIsSilent
    <3>1. ASSUME NEW r \in Runs, pc[r] \in Judging PROVE group[r] = {}
      BY <3>1 DEF RunInv, Consistent, Quiet
    <3>2. DOMAIN Again \cup {"take_predictions", "score"} \subseteq Judging
      BY Tables DEF Judging
    <3> QED BY <3>1, <3>2 DEF KilledGroupIsSilent
  <2> QED BY <2>1, <2>2, <2>3, InvIsTyped DEF PublishedEvidenceIsTrue
<1> QED BY RunInvariant, InputsInvariant, <1>1, PTL

(* What a run answers agrees with what it left on the disk.                *)
THEOREM AnswerIsTrue == Spec => []AnswerMatchesTheDisk
<1>1. RunInv => AnswerMatchesTheDisk
  <2> SUFFICES ASSUME RunInv PROVE AnswerMatchesTheDisk
    OBVIOUS
  <2>1. \A r \in Runs : Published(r) <=> Here(r)
    BY PublishedIsHere DEF RunInv
  <2>2. AnswerTellsPublication
    BY <2>1 DEF RunInv, Consistent, DestinationIsOwn, AnswerTellsPublication
  <2>3. NoStagingIsLeft
    BY DEF RunInv, Consistent, StagingFits, NoStagingIsLeft
  <2> QED BY <2>2, <2>3 DEF AnswerMatchesTheDisk
<1> QED BY RunInvariant, <1>1, PTL
=============================================================================
